---- MODULE Spec2Model ----
(***************************************************************************)
(* Overlay peer session of hcnet-core (overlay/Peer.cpp, overlay/Peer.h,   *)
(* overlay/FlowControlCapacity.cpp).                                       *)
(*                                                                         *)
(* Two sessions of one TCP connection are modelled: "A" is the initiator   *)
(* (WE_CALLED_REMOTE) and "B" the responder (REMOTE_CALLED_US).  Each      *)
(* session is a record of the Peer fields; every member function is an     *)
(* operator from a session record to the session record after the call.    *)
(* An intruder on the wire may forge, repeat, reorder and corrupt frames.   *)
(***************************************************************************)
EXTENDS Integers, Sequences, FiniteSets, TLC

(* ------------------------------ bounds -------------------------------- *)

\* asynchronous events in one behaviour: expiries of a recurring timer,
\* frames the intruder injects or corrupts, drops by the overlay manager,
\* overlay shutdowns
MaxAsync == 1
\* Config::PEER_READING_CAPACITY and PEER_FLOOD_READING_CAPACITY, scaled down
PEER_READING_CAPACITY == 3
PEER_FLOOD_READING_CAPACITY == 2
\* Config::FLOW_CONTROL_SEND_MORE_BATCH_SIZE, scaled down
FLOW_CONTROL_SEND_MORE_BATCH_SIZE == 1
\* OverlayManager::getFlowControlBytesConfig().mTotal, scaled down
FLOW_CONTROL_BYTES_TOTAL == 4
\* the largest payload of a message, the largest grant and outbound
\* capacity, the messages in processing at once and the total growth of
\* the byte ceiling when one FlowControlCapacity object is driven directly
MaxBody == 1
MaxGrant == 2
MaxOutbound == 3
MaxInFlight == 3
MaxIncrease == 2
\* flood messages the application of one node sends
MaxFlood == 2
\* the last second of the clock
MaxNow == 65
\* ADVERT_CACHE_SIZE, TX_ADVERT_VECTOR_MAX_SIZE and
\* OverlayManager::getMaxAdvertSize(), scaled down
ADVERT_CACHE_SIZE == 2
TX_ADVERT_VECTOR_MAX_SIZE == 3
MAX_ADVERT_SIZE == 2
\* the transaction hashes are 1..MaxHash, the ledger sequences 1..MaxLedger
MaxHash == 3
MaxLedger == 2
\* calls of the application into one session: hashes to advertise, frames
\* of the remote node, messages to send
MaxQueued == 3
MaxRemote == 2
MaxSent == 2
MaxReads == 3
\* the messages of every type the remote node writes to the router
MaxRouted == 2
\* the values of the hash of a ping
PingIds == 2
\* the clock of a pinging session, its pings, and the replies the remote
\* node writes unasked
MaxPingNow == 3
MaxPings == 2
MaxReplies == 1
\* the hashes queued beyond the bound of the batch
MaxOverflow == 1
\* the messages the collaborators send through one session
MaxWrites == 5

(* ------------------------- program constants -------------------------- *)

\* enum PeerState
CONNECTING == 0
CONNECTED == 1
GOT_HELLO == 2
GOT_AUTH == 3
CLOSING == 4

\* enum PeerRole
REMOTE_CALLED_US == "REMOTE_CALLED_US"
WE_CALLED_REMOTE == "WE_CALLED_REMOTE"

\* enum class DropMode, enum class DropDirection
FLUSH_WRITE_QUEUE == "FLUSH_WRITE_QUEUE"
IGNORE_WRITE_QUEUE == "IGNORE_WRITE_QUEUE"
REMOTE_DROPPED_US == "REMOTE_DROPPED_US"
WE_DROPPED_REMOTE == "WE_DROPPED_REMOTE"

\* Scheduler::ActionType
NORMAL_ACTION == "NORMAL_ACTION"
DROPPABLE_ACTION == "DROPPABLE_ACTION"

FIRST_VERSION_SUPPORTING_FLOW_CONTROL_IN_BYTES == 28
\* seconds
PEER_SEND_MODE_IDLE_TIMEOUT == 60
RECURRENT_TIMER_PERIOD == 5
AUTH_MSG_FLAG_FLOW_CONTROL_BYTES_REQUESTED == 200
UINT16_MAX == 65535
\* VirtualClock::time_point::min(), below every time of the clock
PING_NOT_SENT == 0 - 1
\* std::chrono::hours(24), in seconds
LAST_PING_DEFAULT == 86400

Peers == {"A", "B"}
Other(p) == IF p = "A" THEN "B" ELSE "A"
RoleOf(p) == IF p = "A" THEN WE_CALLED_REMOTE ELSE REMOTE_CALLED_US

(* ------------------------------ messages ------------------------------ *)

NoCert == [pubkey |-> 0, signedBy |-> 0, expired |-> FALSE]
NoHello ==
    [overlayMinVersion |-> 0, overlayVersion |-> 0, networkID |-> 0,
     listeningPort |-> 0, peerID |-> 0, cert |-> NoCert, nonce |-> 0]

\* A HcnetMessage: the discriminant and the arms the session reads.
\* Every message has the same fields; the arms a type does not use are zero.
\* num and numBytes are the numMessages and numBytes of SEND_MORE and
\* SEND_MORE_EXTENDED; body is the length of a variable-size payload;
\* txHashes are the hashes of a FLOOD_ADVERT or a FLOOD_DEMAND; hash is the
\* qSetHash of a GET_SCP_QUORUMSET, the reqHash of a DONT_HAVE and the
\* xdrSha256 of the quorum set of a SCP_QUORUMSET.
HcnetMessage(t) ==
    [type |-> t, hello |-> NoHello, flags |-> 0, code |-> "", msg |-> "",
     num |-> 0, numBytes |-> 0, body |-> 0, txHashes |-> <<>>, hash |-> 0]

\* the all-zero HmacSha256Mac of a default-constructed AuthenticatedMessage
ZeroMac == <<>>

(* ------------- PeerAuth, HMAC (collaborators outside src/) ------------- *)

\* ECDH of a local ephemeral secret and a remote ephemeral public key:
\* symmetric in the two key pairs.
SharedKey(a, b) == {a, b}

\* HKDF of the shared key, a role tag and both nonces.  The tag and the
\* nonce order are chosen so that one side's sending key is the other
\* side's receiving key and the two directions differ.
getSendingMacKey(localEph, remotePub, localNonce, remoteNonce, role) ==
    <<SharedKey(localEph, remotePub),
      IF role = WE_CALLED_REMOTE THEN 0 ELSE 1, localNonce, remoteNonce>>

getReceivingMacKey(localEph, remotePub, localNonce, remoteNonce, role) ==
    <<SharedKey(localEph, remotePub),
      IF role = WE_CALLED_REMOTE THEN 1 ELSE 0, remoteNonce, localNonce>>

\* hmacSha256(key, xdr_to_opaque(seq, msg)): injective in (key, seq, msg)
hmacSha256(key, seq, msg) == <<key, seq, msg>>

hmacSha256Verify(mac, key, seq, msg) == mac = hmacSha256(key, seq, msg)

\* PeerAuth::getAuthCert: the node's ephemeral key signed by its seed
getAuthCert(c) ==
    [pubkey |-> c.ephKey, signedBy |-> c.NODE_ID, expired |-> c.certExpired]

\* PeerAuth::verifyRemoteAuthCert: not expired, signed by the claimed key
verifyRemoteAuthCert(peerID, cert) ==
    ~cert.expired /\ cert.signedBy = peerID

\* OverlayManager::isFloodMessage
isFloodMessage(m) ==
    m.type \in {"TRANSACTION", "SCP_MESSAGE", "FLOOD_ADVERT", "FLOOD_DEMAND"}

(* ------------------------- FlowControlCapacity ------------------------ *)

\* A FlowControlCapacity object: axis tells the subclass
\* (FlowControlMessageCapacity or FlowControlByteCapacity); mCapacity and
\* mCapacityLimits are ReadingCapacity structs whose optional mTotalCapacity
\* is a sequence of length at most one; asserted tells that a releaseAssert
\* failed, which ends the process.
nullopt == <<>>

\* FlowControlMessageCapacity::getCapacityLimits
MessageCapacityLimits ==
    [mFloodCapacity |-> PEER_FLOOD_READING_CAPACITY,
     mTotalCapacity |-> <<PEER_READING_CAPACITY>>]

\* FlowControlMessageCapacity::FlowControlMessageCapacity
FlowControlMessageCapacity ==
    [axis |-> "messages", mCapacityLimits |-> MessageCapacityLimits,
     mCapacity |-> MessageCapacityLimits, mOutboundCapacity |-> 0,
     asserted |-> FALSE]

\* FlowControlByteCapacity::FlowControlByteCapacity
FlowControlByteCapacity ==
    LET limits == [mFloodCapacity |-> FLOW_CONTROL_BYTES_TOTAL,
                   mTotalCapacity |-> nullopt]
    IN  [axis |-> "bytes", mCapacityLimits |-> limits, mCapacity |-> limits,
         mOutboundCapacity |-> 0, asserted |-> FALSE]

releaseAssertFailed(fc) == [fc EXCEPT !.asserted = TRUE]

\* FlowControlCapacity::msgBodySize: xdr_size of the message, in units of
\* the four-byte discriminant: the discriminant and the payload
msgBodySize(msg) == 1 + msg.body

\* FlowControl*Capacity::getMsgResourceCount
getMsgResourceCount(fc, msg) ==
    IF fc.axis = "messages" THEN 1 ELSE msgBodySize(msg)

\* FlowControl*Capacity::getCapacityLimits
getCapacityLimits(fc) ==
    IF fc.axis = "messages" THEN MessageCapacityLimits ELSE fc.mCapacityLimits

\* FlowControl::getNumMessages
getNumMessages(msg) == msg.num

\* FlowControlCapacity::checkCapacityInvariants: TRUE when no assertion fails
checkCapacityInvariants(fc) ==
    /\ getCapacityLimits(fc).mFloodCapacity >= fc.mCapacity.mFloodCapacity
    /\ IF getCapacityLimits(fc).mTotalCapacity # nullopt
       THEN /\ fc.mCapacity.mTotalCapacity # nullopt
            /\ getCapacityLimits(fc).mTotalCapacity[1] >=
                   fc.mCapacity.mTotalCapacity[1]
       ELSE fc.mCapacity.mTotalCapacity = nullopt

\* hasOutboundCapacity that asks for credit left, not for the cost of msg
hasOutboundCapacity_nonNegative(fc, msg) ==
    fc.mOutboundCapacity >= 0

hasOutboundCapacity(fc, msg) ==
    fc.mOutboundCapacity >= getMsgResourceCount(fc, msg)

\* lockOutboundCapacity that takes the credit without the assertion
lockOutboundCapacity_noAssert(fc, msg) ==
    IF isFloodMessage(msg)
    THEN [fc EXCEPT !.mOutboundCapacity = @ - getMsgResourceCount(fc, msg)]
    ELSE fc

lockOutboundCapacity(fc, msg) ==
    IF isFloodMessage(msg)
    THEN IF ~hasOutboundCapacity(fc, msg)
         THEN releaseAssertFailed(fc)
         ELSE [fc EXCEPT !.mOutboundCapacity =
                             @ - getMsgResourceCount(fc, msg)]
    ELSE fc

\* FlowControlMessageCapacity::releaseOutboundCapacity and
\* FlowControlByteCapacity::releaseOutboundCapacity
releaseOutboundCapacity(fc, msg) ==
    IF fc.axis = "messages"
    THEN IF msg.type \notin {"SEND_MORE", "SEND_MORE_EXTENDED"}
         THEN releaseAssertFailed(fc)
         ELSE [fc EXCEPT !.mOutboundCapacity = @ + getNumMessages(msg)]
    ELSE IF msg.type # "SEND_MORE_EXTENDED"
         THEN releaseAssertFailed(fc)
         ELSE [fc EXCEPT !.mOutboundCapacity = @ + msg.numBytes]

\* canRead that looks at the flood capacity
capacityCanRead_floodCapacity(fc) ==
    fc.mCapacity.mFloodCapacity > 0

\* FlowControlMessageCapacity::canRead and FlowControlByteCapacity::canRead;
\* the assertions of both hold by construction of the two subclasses
capacityCanRead(fc) ==
    IF fc.axis = "messages" THEN fc.mCapacity.mTotalCapacity[1] > 0 ELSE TRUE

\* FlowControlCapacity::lockLocalCapacity: the total capacity is taken
\* first; a flood message that finds too little flood capacity is refused
\* with the total capacity already taken.
lockLocalCapacity(fc, msg) ==
    LET msgResources == getMsgResourceCount(fc, msg)
        total == fc.mCapacity.mTotalCapacity
    IN  IF ~checkCapacityInvariants(fc)
        THEN [ok |-> FALSE, fc |-> releaseAssertFailed(fc)]
        ELSE IF total # nullopt /\ total[1] < msgResources
        THEN [ok |-> FALSE, fc |-> releaseAssertFailed(fc)]
        ELSE
        LET fc1 == IF total # nullopt
                   THEN [fc EXCEPT !.mCapacity.mTotalCapacity =
                                       <<total[1] - msgResources>>]
                   ELSE fc
        IN  IF isFloodMessage(msg)
            THEN IF fc1.mCapacity.mFloodCapacity < msgResources
                 THEN [ok |-> FALSE, fc |-> fc1]
                 ELSE [ok |-> TRUE,
                       fc |-> [fc1 EXCEPT !.mCapacity.mFloodCapacity =
                                              @ - msgResources]]
            ELSE [ok |-> TRUE, fc |-> fc1]

\* releaseLocalCapacity that returns the total capacity only
releaseLocalCapacity_totalOnly(fc, msg) ==
    LET resourcesFreed == getMsgResourceCount(fc, msg)
        total == fc.mCapacity.mTotalCapacity
        fc1 == IF total # nullopt
               THEN [fc EXCEPT !.mCapacity.mTotalCapacity =
                                   <<total[1] + resourcesFreed>>]
               ELSE fc
    IN  [released |-> IF isFloodMessage(msg) THEN resourcesFreed ELSE 0,
         fc |-> IF checkCapacityInvariants(fc1)
                THEN fc1 ELSE releaseAssertFailed(fc1)]

\* releaseLocalCapacity that returns flood capacity for every message
releaseLocalCapacity_everyMessage(fc, msg) ==
    LET resourcesFreed == getMsgResourceCount(fc, msg)
        total == fc.mCapacity.mTotalCapacity
        fc1 == IF total # nullopt
               THEN [fc EXCEPT !.mCapacity.mTotalCapacity =
                                   <<total[1] + resourcesFreed>>]
               ELSE fc
        fc2 == [fc1 EXCEPT !.mCapacity.mFloodCapacity = @ + resourcesFreed]
    IN  [released |-> resourcesFreed,
         fc |-> IF checkCapacityInvariants(fc2)
                THEN fc2 ELSE releaseAssertFailed(fc2)]

\* FlowControlCapacity::releaseLocalCapacity; released is the return value
releaseLocalCapacity(fc, msg) ==
    LET resourcesFreed == getMsgResourceCount(fc, msg)
        total == fc.mCapacity.mTotalCapacity
        fc1 == IF total # nullopt
               THEN [fc EXCEPT !.mCapacity.mTotalCapacity =
                                   <<total[1] + resourcesFreed>>]
               ELSE fc
        fc2 == IF isFloodMessage(msg)
               THEN [fc1 EXCEPT !.mCapacity.mFloodCapacity =
                                    @ + resourcesFreed]
               ELSE fc1
    IN  [released |-> IF isFloodMessage(msg) THEN resourcesFreed ELSE 0,
         fc |-> IF checkCapacityInvariants(fc2)
                THEN fc2 ELSE releaseAssertFailed(fc2)]

\* FlowControlByteCapacity::handleTxSizeIncrease
handleTxSizeIncrease(fc, increase) ==
    [fc EXCEPT !.mCapacity.mFloodCapacity = @ + increase,
               !.mCapacityLimits.mFloodCapacity = @ + increase]

(* ------------------------------ session ------------------------------- *)

\* byzantine tells that the node of the session has, at least once, not
\* run this code.
\* Peer::Peer: the fields after construction, at time 0.  written, handled,
\* delivered and mDrop* record what the transport and the collaborators are
\* handed; granted is the sum of the numMessages of the grants applied.
\* The FlowControl object of the session is kept in the session record:
\* fcStarted, mFlowControlCapacity, mFlowControlBytesCapacity,
\* mOutboundQueue, mFloodDataProcessed and mOutboundCapacityTimestamp.
NewPeer(role, nonce) ==
    [mRole |-> role,
     mState |-> IF role = WE_CALLED_REMOTE THEN CONNECTING ELSE CONNECTED,
     mPeerID |-> 0, mSendNonce |-> nonce, mRecvNonce |-> 0,
     mSendMacSeq |-> 0, mRecvMacSeq |-> 0,
     mSendMacKey |-> <<>>, mRecvMacKey |-> <<>>,
     mRemoteOverlayMinVersion |-> 0, mRemoteOverlayVersion |-> 0,
     mAddress |-> 0, mShuttingDown |-> FALSE,
     mPingSentTime |-> PING_NOT_SENT, mLastPing |-> LAST_PING_DEFAULT,
     mRecurringTimer |-> TRUE, connectPending |-> role = WE_CALLED_REMOTE,
     mMessageDrop |-> 0,
     mDropReason |-> "", mDropMode |-> "", mDropDirection |-> "",
     fcStarted |-> FALSE, fcBytes |-> FALSE,
     mFlowControlCapacity |-> FlowControlMessageCapacity,
     mFlowControlBytesCapacity |-> nullopt,
     mOutboundQueue |-> <<>>, mFloodDataProcessed |-> 0,
     mFloodDataProcessedBytes |-> 0,
     mOutboundCapacityTimestamp |-> nullopt, granted |-> 0,
     mIsPeerThrottled |-> FALSE, scheduledReads |-> 0, byzantine |-> FALSE,
     mLastRead |-> 0, mLastWrite |-> 0, mEnqueueTimeOfLastWrite |-> 0,
     mRecurringTimerExpiry |-> RECURRENT_TIMER_PERIOD,
     mAdvertTimer |-> FALSE, mDelayedExecutionTimer |-> FALSE,
     mTxHashesToAdvertise |-> <<>>, mAdvertHistory |-> {},
     maxAdvertSize |-> MAX_ADVERT_SIZE,
     mMessagesFulfilled |-> 0, mBannedMessageUnfulfilled |-> 0,
     mUnknownMessageUnfulfilled |-> 0, overlayMessageDrop |-> 0,
     postedSend |-> <<>>, accepted |-> <<>>,
     posted |-> <<>>, written |-> <<>>, handled |-> <<>>,
     delivered |-> <<>>, recorded |-> <<>>]

isAuthenticated(s) == s.mState = GOT_AUTH

\* Peer::shouldAbort; down is OverlayManager::isShuttingDown()
shouldAbort(s, down) == s.mState = CLOSING \/ down

\* Peer::sendMessage(xdr::msg_ptr&&), pure virtual: the frame is handed to
\* the transport, which puts it on the wire.  st is the session state at
\* the moment of the write.
writeXdr(s, amsg) ==
    [s EXCEPT !.written = Append(@, [am |-> amsg, st |-> s.mState])]

AuthenticatedMessage(msg, seq, mac) ==
    [message |-> msg, sequence |-> seq, mac |-> mac]

\* sendAuthenticatedMessage with the counter advanced for every message
sendAuthenticatedMessage_countsEvery(s, msg) ==
    IF msg.type # "HELLO" /\ msg.type # "ERROR_MSG"
    THEN writeXdr([s EXCEPT !.mSendMacSeq = @ + 1],
                  AuthenticatedMessage(
                      msg, s.mSendMacSeq,
                      hmacSha256(s.mSendMacKey, s.mSendMacSeq, msg)))
    ELSE writeXdr([s EXCEPT !.mSendMacSeq = @ + 1],
                  AuthenticatedMessage(msg, 0, ZeroMac))

sendAuthenticatedMessage(s, msg) ==
    IF msg.type # "HELLO" /\ msg.type # "ERROR_MSG"
    THEN writeXdr([s EXCEPT !.mSendMacSeq = @ + 1],
                  AuthenticatedMessage(
                      msg, s.mSendMacSeq,
                      hmacSha256(s.mSendMacKey, s.mSendMacSeq, msg)))
    ELSE writeXdr(s, AuthenticatedMessage(msg, 0, ZeroMac))

\* outbound capacity for msg on every enabled axis
flowHasOutboundCapacity(s, msg) ==
    /\ hasOutboundCapacity(s.mFlowControlCapacity, msg)
    /\ s.mFlowControlBytesCapacity # nullopt =>
           hasOutboundCapacity(s.mFlowControlBytesCapacity[1], msg)

\* FlowControl::maybeSendNextBatch: the queued flood messages are handed
\* to the send callback, oldest first, as long as every enabled axis has
\* outbound capacity for the next one; each takes its cost on every axis.
RECURSIVE maybeSendNextBatch(_)
maybeSendNextBatch(s) ==
    IF s.mOutboundQueue = <<>> \/ ~s.fcStarted
    THEN s
    ELSE LET msg == Head(s.mOutboundQueue)
         IN  IF ~flowHasOutboundCapacity(s, msg)
             THEN s
             ELSE maybeSendNextBatch(
                      [sendAuthenticatedMessage(s, msg) EXCEPT
                          !.mFlowControlCapacity =
                              lockOutboundCapacity(@, msg),
                          !.mFlowControlBytesCapacity =
                              IF @ = nullopt THEN @
                              ELSE <<lockOutboundCapacity(@[1], msg)>>,
                          !.mOutboundQueue = Tail(@)])

\* FlowControl::maybeSendMessage: a flood message is queued behind the
\* outbound credit, the queue is released as far as the credit allows and
\* the call returns true; any other message is not flow-controlled and the
\* call returns false.
maybeSendMessage(s, msg) ==
    IF isFloodMessage(msg)
    THEN [sent |-> TRUE,
          s |-> maybeSendNextBatch(
                    [s EXCEPT !.mOutboundQueue = Append(@, msg)])]
    ELSE [sent |-> FALSE, s |-> s]

\* sendMessage that takes a sequence number for a message it sheds
sendMessage_shedTakesSequence(s, ctx, msg) ==
    IF ctx.actionType = DROPPABLE_ACTION /\ ctx.overloaded
    THEN [s EXCEPT !.mMessageDrop = @ + 1, !.overlayMessageDrop = @ + 1,
                   !.mSendMacSeq = @ + 1]
    ELSE LET r == maybeSendMessage(s, msg)
         IN  IF ~r.sent THEN sendAuthenticatedMessage(r.s, msg) ELSE r.s

\* sendMessage that sheds every message of a droppable action
sendMessage_shedsDroppable(s, ctx, msg) ==
    IF ctx.actionType = DROPPABLE_ACTION
    THEN [s EXCEPT !.mMessageDrop = @ + 1, !.overlayMessageDrop = @ + 1]
    ELSE LET r == maybeSendMessage(s, msg)
         IN  IF ~r.sent THEN sendAuthenticatedMessage(r.s, msg) ELSE r.s

\* Peer::sendMessage(shared_ptr<HcnetMessage const>); ctx is the scheduler's
\* current action type and the answer of sendQueueIsOverloaded();
\* overlayMessageDrop is the meter overlay.message.drop
sendMessage(s, ctx, msg) ==
    IF ctx.actionType = DROPPABLE_ACTION /\ ctx.overloaded
    THEN [s EXCEPT !.mMessageDrop = @ + 1, !.overlayMessageDrop = @ + 1]
    ELSE LET r == maybeSendMessage(s, msg)
         IN  IF ~r.sent THEN sendAuthenticatedMessage(r.s, msg) ELSE r.s

\* shutdown that cancels the timers at every call
shutdown_everyCall(s) ==
    [s EXCEPT !.mShuttingDown = TRUE, !.mRecurringTimer = FALSE,
              !.mAdvertTimer = FALSE, !.mDelayedExecutionTimer = FALSE]

\* Peer::shutdown: cancels the three timers once.  A timer field tells
\* whether a wait is pending; a cancelled wait ends with an error.
shutdown(s) ==
    IF s.mShuttingDown
    THEN s
    ELSE [s EXCEPT !.mShuttingDown = TRUE, !.mRecurringTimer = FALSE,
                   !.mAdvertTimer = FALSE, !.mDelayedExecutionTimer = FALSE]

\* Peer::drop, pure virtual: idempotent, moves the state to CLOSING, keeps
\* the reason, direction and mode of the first call, cancels the timers.
drop(s, reason, dropDirection, dropMode) ==
    IF s.mState = CLOSING
    THEN s
    ELSE shutdown([s EXCEPT !.mState = CLOSING,
                            !.mDropReason = reason,
                            !.mDropDirection = dropDirection,
                            !.mDropMode = dropMode])

sendError(s, ctx, error, message) ==
    sendMessage(s, ctx,
                [HcnetMessage("ERROR_MSG") EXCEPT !.code = error,
                                                  !.msg = message])

\* sendErrorAndDrop that closes at once whatever mode it is given
sendErrorAndDrop_ignoreMode(s, ctx, error, message, dropMode) ==
    drop(sendError(s, ctx, error, message), message, WE_DROPPED_REMOTE,
         IGNORE_WRITE_QUEUE)

sendErrorAndDrop(s, ctx, error, message, dropMode) ==
    drop(sendError(s, ctx, error, message), message, WE_DROPPED_REMOTE,
         dropMode)

\* ledgerVersion and versionStr are sent too; no check reads them
sendHello(s, c, ctx) ==
    sendMessage(s, ctx,
        [HcnetMessage("HELLO") EXCEPT !.hello =
            [overlayMinVersion |-> c.OVERLAY_PROTOCOL_MIN_VERSION,
             overlayVersion |-> c.OVERLAY_PROTOCOL_VERSION,
             networkID |-> c.NETWORK_ID,
             listeningPort |-> c.PEER_PORT,
             peerID |-> c.NODE_ID,
             cert |-> getAuthCert(c),
             nonce |-> s.mSendNonce]])

sendAuth(s, c, ctx) ==
    sendMessage(s, ctx,
        [HcnetMessage("AUTH") EXCEPT !.flags =
            IF c.ENABLE_FLOW_CONTROL_BYTES
            THEN AUTH_MSG_FLAG_FLOW_CONTROL_BYTES_REQUESTED ELSE 0])

\* env.peersKnown: getPeersToSend returned a non-empty list
sendPeers(s, ctx, env) ==
    IF env.peersKnown THEN sendMessage(s, ctx, HcnetMessage("PEERS")) ELSE s

sendGetScpState(s, ctx) == sendMessage(s, ctx, HcnetMessage("GET_SCP_STATE"))

sendGetQuorumSet(s, ctx, setID) ==
    sendMessage(s, ctx, [HcnetMessage("GET_SCP_QUORUMSET") EXCEPT
                            !.hash = setID])

sendDontHave(s, ctx, itemID) ==
    sendMessage(s, ctx, [HcnetMessage("DONT_HAVE") EXCEPT !.hash = itemID])

\* the quorum set is the one Herder::getQSet found under qSetHash
sendSCPQuorumSet(s, ctx, qSetHash) ==
    sendMessage(s, ctx, [HcnetMessage("SCP_QUORUMSET") EXCEPT
                            !.hash = qSetHash])

\* Peer::pingIDfromTimePoint: the short hash of the tick count of the time
\* point; time points that differ can have the same hash
pingIDfromTimePoint(tp) == 1 + (tp % PingIds)

\* pingPeer without the isAuthenticated() test
pingPeer_anyState(s, ctx) ==
    IF s.mPingSentTime = PING_NOT_SENT
    THEN sendGetQuorumSet([s EXCEPT !.mPingSentTime = ctx.now], ctx,
                          pingIDfromTimePoint(ctx.now))
    ELSE s

\* pingPeer that sends a ping while one is outstanding
pingPeer_always(s, ctx) ==
    IF isAuthenticated(s)
    THEN sendGetQuorumSet([s EXCEPT !.mPingSentTime = ctx.now], ctx,
                          pingIDfromTimePoint(ctx.now))
    ELSE s

\* Peer::pingPeer
pingPeer(s, ctx) ==
    IF isAuthenticated(s) /\ s.mPingSentTime = PING_NOT_SENT
    THEN sendGetQuorumSet([s EXCEPT !.mPingSentTime = ctx.now], ctx,
                          pingIDfromTimePoint(ctx.now))
    ELSE s

\* maybeProcessPingResponse that takes any reply for the reply to the ping
maybeProcessPingResponse_anyHash(s, ctx, id) ==
    IF s.mPingSentTime # PING_NOT_SENT
    THEN [s EXCEPT !.mLastPing = ctx.now - s.mPingSentTime,
                   !.mPingSentTime = PING_NOT_SENT]
    ELSE s

\* Peer::maybeProcessPingResponse
maybeProcessPingResponse(s, ctx, id) ==
    IF s.mPingSentTime # PING_NOT_SENT
           /\ pingIDfromTimePoint(s.mPingSentTime) = id
    THEN [s EXCEPT !.mLastPing = ctx.now - s.mPingSentTime,
                   !.mPingSentTime = PING_NOT_SENT]
    ELSE s

(* ---------------------------- flow control ---------------------------- *)

\* Peer::canRead, with FlowControl::canRead: every enabled axis can read
canRead(s) ==
    /\ capacityCanRead(s.mFlowControlCapacity)
    /\ s.mFlowControlBytesCapacity # nullopt =>
           capacityCanRead(s.mFlowControlBytesCapacity[1])

\* a releaseAssert of the session's flow control has failed
Asserted(s) ==
    \/ s.mFlowControlCapacity.asserted
    \/ s.mFlowControlBytesCapacity # nullopt
           /\ s.mFlowControlBytesCapacity[1].asserted

\* FlowControl::beginMessageProcessing: the message axis, then the byte
\* axis if it is enabled and the message axis had room
flowBeginMessageProcessing(s, msg) ==
    LET m == lockLocalCapacity(s.mFlowControlCapacity, msg)
        s1 == [s EXCEPT !.mFlowControlCapacity = m.fc]
    IN  IF ~m.ok \/ s.mFlowControlBytesCapacity = nullopt
        THEN [ok |-> m.ok, s |-> s1]
        ELSE LET b == lockLocalCapacity(s.mFlowControlBytesCapacity[1], msg)
             IN  [ok |-> b.ok,
                  s |-> [s1 EXCEPT !.mFlowControlBytesCapacity = <<b.fc>>]]

\* beginMessageProcessing that lets a flood message beyond the grant pass
beginMessageProcessing_noDrop(s, msg) ==
    flowBeginMessageProcessing(s, msg).s

\* Peer::beginMessageProcessing
beginMessageProcessing(s, msg) ==
    LET r == flowBeginMessageProcessing(s, msg)
    IN  IF ~r.ok
        THEN drop(r.s, "unexpected flood message, peer at capacity",
                  WE_DROPPED_REMOTE, IGNORE_WRITE_QUEUE)
        ELSE r.s

\* FlowControl::sendSendMore, through the send callback
sendSendMore(s, numMessages, numBytes) ==
    sendAuthenticatedMessage(
        s, [HcnetMessage(IF s.mFlowControlBytesCapacity # nullopt
                         THEN "SEND_MORE_EXTENDED" ELSE "SEND_MORE")
               EXCEPT !.num = numMessages,
                      !.numBytes = IF s.mFlowControlBytesCapacity # nullopt
                                   THEN numBytes ELSE 0])

\* FlowControl::endMessageProcessing: the capacity of the message is
\* returned on every enabled axis; the flood capacity returned since the
\* last grant is granted to the peer once it amounts to a batch
flowEndMessageProcessing(s, msg) ==
    LET m == releaseLocalCapacity(s.mFlowControlCapacity, msg)
        bytes == s.mFlowControlBytesCapacity # nullopt
        b == IF bytes
             THEN releaseLocalCapacity(s.mFlowControlBytesCapacity[1], msg)
             ELSE [released |-> 0, fc |-> nullopt]
        s1 == [s EXCEPT !.mFlowControlCapacity = m.fc,
                        !.mFlowControlBytesCapacity =
                            IF bytes THEN <<b.fc>> ELSE nullopt,
                        !.mFloodDataProcessed = @ + m.released,
                        !.mFloodDataProcessedBytes = @ + b.released]
    IN  IF s1.mFloodDataProcessed >= FLOW_CONTROL_SEND_MORE_BATCH_SIZE
        THEN sendSendMore([s1 EXCEPT !.mFloodDataProcessed = 0,
                                     !.mFloodDataProcessedBytes = 0],
                          s1.mFloodDataProcessed, s1.mFloodDataProcessedBytes)
        ELSE s1

\* Peer::scheduleRead, pure virtual: the transport reads the socket again;
\* scheduledReads counts the calls
scheduleRead(s) == [s EXCEPT !.scheduledReads = @ + 1]

\* endMessageProcessing that returns the capacity and leaves a throttled
\* session throttled
endMessageProcessing_staysThrottled(s, down, msg) ==
    IF shouldAbort(s, down)
    THEN s
    ELSE flowEndMessageProcessing(s, msg)

\* Peer::endMessageProcessing; FlowControl::endMessageProcessing leaves
\* mIsPeerThrottled as it is; the releaseAssert(canRead()) is checked as a
\* property of the sessions
endMessageProcessing(s, down, msg) ==
    IF shouldAbort(s, down)
    THEN s
    ELSE IF s.mIsPeerThrottled
    THEN scheduleRead([flowEndMessageProcessing(s, msg) EXCEPT
                          !.mIsPeerThrottled = FALSE])
    ELSE flowEndMessageProcessing(s, msg)

\* FlowControl::start: keeps the send callback, creates the byte axis if
\* both sides want it, and sends the initial grant.  The time of the last
\* grant of the peer starts to count.
startFlowControl(s, ctx, bothWantBytes) ==
    sendSendMore(
        [s EXCEPT !.fcStarted = TRUE, !.fcBytes = bothWantBytes,
                  !.mFlowControlBytesCapacity =
                      IF bothWantBytes THEN <<FlowControlByteCapacity>>
                                       ELSE nullopt,
                  !.mOutboundCapacityTimestamp = <<ctx.now>>],
        PEER_FLOOD_READING_CAPACITY, FLOW_CONTROL_BYTES_TOTAL)

\* FlowControl::isSendMoreValid: SEND_MORE_EXTENDED needs the byte axis
isSendMoreValid(s, msg) ==
    msg.type = "SEND_MORE_EXTENDED" => s.fcBytes

\* FlowControl::maybeReleaseCapacityAndTriggerSend: the grant is added to
\* the outbound capacity of every enabled axis, its time is kept, and the
\* queue is released as far as the credit allows
maybeReleaseCapacityAndTriggerSend(s, ctx, msg) ==
    maybeSendNextBatch(
        [s EXCEPT !.mFlowControlCapacity = releaseOutboundCapacity(@, msg),
                  !.mFlowControlBytesCapacity =
                      IF @ = nullopt THEN @
                      ELSE <<releaseOutboundCapacity(@[1], msg)>>,
                  !.mOutboundCapacityTimestamp = <<ctx.now>>,
                  !.granted = @ + getNumMessages(msg)])

(* ----------------------------- handshake ------------------------------ *)

\* recvHello without the comparison of the remote identity with our own
recvHello_noSelfCheck(s, c, ctx, env, elo) ==
    IF s.mState >= GOT_HELLO
    THEN drop(s, "received unexpected HELLO", WE_DROPPED_REMOTE,
              IGNORE_WRITE_QUEUE)
    ELSE IF ~verifyRemoteAuthCert(elo.peerID, elo.cert)
    THEN drop(s, "failed to verify auth cert", WE_DROPPED_REMOTE,
              IGNORE_WRITE_QUEUE)
    ELSE IF elo.peerID \in c.banned
    THEN drop(s, "node is banned", WE_DROPPED_REMOTE, IGNORE_WRITE_QUEUE)
    ELSE
    LET s1 == [s EXCEPT
                 !.mRemoteOverlayMinVersion = elo.overlayMinVersion,
                 !.mRemoteOverlayVersion = elo.overlayVersion,
                 !.mPeerID = elo.peerID,
                 !.mRecvNonce = elo.nonce,
                 !.mSendMacSeq = 0,
                 !.mRecvMacSeq = 0,
                 !.mSendMacKey = getSendingMacKey(c.ephKey, elo.cert.pubkey,
                                     s.mSendNonce, elo.nonce, s.mRole),
                 !.mRecvMacKey = getReceivingMacKey(c.ephKey, elo.cert.pubkey,
                                     s.mSendNonce, elo.nonce, s.mRole),
                 !.mState = GOT_HELLO]
    IN
    IF env.ipEmpty
    THEN drop(s1, "failed to determine remote address", WE_DROPPED_REMOTE,
              IGNORE_WRITE_QUEUE)
    ELSE
    LET s2 == [s1 EXCEPT !.mAddress = elo.listeningPort]
        s3 == IF s.mRole = REMOTE_CALLED_US THEN sendHello(s2, c, ctx) ELSE s2
        dropMode == IF s.mRole = REMOTE_CALLED_US THEN FLUSH_WRITE_QUEUE
                                                  ELSE IGNORE_WRITE_QUEUE
    IN
    IF \/ s3.mRemoteOverlayMinVersion > s3.mRemoteOverlayVersion
       \/ s3.mRemoteOverlayVersion < c.OVERLAY_PROTOCOL_MIN_VERSION
       \/ s3.mRemoteOverlayMinVersion > c.OVERLAY_PROTOCOL_VERSION
    THEN sendErrorAndDrop(s3, ctx, "ERR_CONF", "wrong protocol version",
                          dropMode)
    ELSE IF elo.networkID # c.NETWORK_ID
    THEN sendErrorAndDrop(s3, ctx, "ERR_CONF", "wrong network passphrase",
                          dropMode)
    ELSE IF elo.listeningPort <= 0 \/ elo.listeningPort > UINT16_MAX
    THEN sendErrorAndDrop(s3, ctx, "ERR_CONF", "bad address",
                          IGNORE_WRITE_QUEUE)
    ELSE IF env.authDup \/ env.pendDup
    THEN sendErrorAndDrop(s3, ctx, "ERR_CONF", "already-connected peer",
                          dropMode)
    ELSE IF s.mRole = WE_CALLED_REMOTE THEN sendAuth(s3, c, ctx) ELSE s3

recvHello(s, c, ctx, env, elo) ==
    IF s.mState >= GOT_HELLO
    THEN drop(s, "received unexpected HELLO", WE_DROPPED_REMOTE,
              IGNORE_WRITE_QUEUE)
    ELSE IF ~verifyRemoteAuthCert(elo.peerID, elo.cert)
    THEN drop(s, "failed to verify auth cert", WE_DROPPED_REMOTE,
              IGNORE_WRITE_QUEUE)
    ELSE IF elo.peerID \in c.banned
    THEN drop(s, "node is banned", WE_DROPPED_REMOTE, IGNORE_WRITE_QUEUE)
    ELSE
    LET s1 == [s EXCEPT
                 !.mRemoteOverlayMinVersion = elo.overlayMinVersion,
                 !.mRemoteOverlayVersion = elo.overlayVersion,
                 !.mPeerID = elo.peerID,
                 !.mRecvNonce = elo.nonce,
                 !.mSendMacSeq = 0,
                 !.mRecvMacSeq = 0,
                 !.mSendMacKey = getSendingMacKey(c.ephKey, elo.cert.pubkey,
                                     s.mSendNonce, elo.nonce, s.mRole),
                 !.mRecvMacKey = getReceivingMacKey(c.ephKey, elo.cert.pubkey,
                                     s.mSendNonce, elo.nonce, s.mRole),
                 !.mState = GOT_HELLO]
    IN
    IF env.ipEmpty
    THEN drop(s1, "failed to determine remote address", WE_DROPPED_REMOTE,
              IGNORE_WRITE_QUEUE)
    ELSE
    LET s2 == [s1 EXCEPT !.mAddress = elo.listeningPort]
        s3 == IF s.mRole = REMOTE_CALLED_US THEN sendHello(s2, c, ctx) ELSE s2
        dropMode == IF s.mRole = REMOTE_CALLED_US THEN FLUSH_WRITE_QUEUE
                                                  ELSE IGNORE_WRITE_QUEUE
    IN
    IF \/ s3.mRemoteOverlayMinVersion > s3.mRemoteOverlayVersion
       \/ s3.mRemoteOverlayVersion < c.OVERLAY_PROTOCOL_MIN_VERSION
       \/ s3.mRemoteOverlayMinVersion > c.OVERLAY_PROTOCOL_VERSION
    THEN sendErrorAndDrop(s3, ctx, "ERR_CONF", "wrong protocol version",
                          dropMode)
    ELSE IF elo.peerID = c.NODE_ID
    THEN sendErrorAndDrop(s3, ctx, "ERR_CONF", "connecting to self", dropMode)
    ELSE IF elo.networkID # c.NETWORK_ID
    THEN sendErrorAndDrop(s3, ctx, "ERR_CONF", "wrong network passphrase",
                          dropMode)
    ELSE IF elo.listeningPort <= 0 \/ elo.listeningPort > UINT16_MAX
    THEN sendErrorAndDrop(s3, ctx, "ERR_CONF", "bad address",
                          IGNORE_WRITE_QUEUE)
    ELSE IF env.authDup \/ env.pendDup
    THEN sendErrorAndDrop(s3, ctx, "ERR_CONF", "already-connected peer",
                          dropMode)
    ELSE IF s.mRole = WE_CALLED_REMOTE THEN sendAuth(s3, c, ctx) ELSE s3

\* recvAuth with the AUTH reply sent in both roles
recvAuth_bothReply(s, c, ctx, env, msg) ==
    IF s.mState # GOT_HELLO
    THEN sendErrorAndDrop(s, ctx, "ERR_MISC", "out-of-order AUTH message",
                          IGNORE_WRITE_QUEUE)
    ELSE
    LET s1 == [s EXCEPT !.mState = GOT_AUTH]
        s2 == sendPeers(sendAuth(s1, c, ctx), ctx, env)
    IN
    IF ~env.accept
    THEN sendErrorAndDrop(s2, ctx, "ERR_LOAD", "peer rejected",
                          FLUSH_WRITE_QUEUE)
    ELSE
    LET bothWantBytes ==
            /\ c.OVERLAY_PROTOCOL_VERSION >=
                   FIRST_VERSION_SUPPORTING_FLOW_CONTROL_IN_BYTES
            /\ s2.mRemoteOverlayVersion >=
                   FIRST_VERSION_SUPPORTING_FLOW_CONTROL_IN_BYTES
            /\ msg.flags = AUTH_MSG_FLAG_FLOW_CONTROL_BYTES_REQUESTED
            /\ c.ENABLE_FLOW_CONTROL_BYTES
    IN  sendGetScpState(startFlowControl(s2, ctx, bothWantBytes), ctx)

\* recvAuth that drops a rejected peer without telling it
recvAuth_rejectSilently(s, c, ctx, env, msg) ==
    IF s.mState # GOT_HELLO
    THEN sendErrorAndDrop(s, ctx, "ERR_MISC", "out-of-order AUTH message",
                          IGNORE_WRITE_QUEUE)
    ELSE
    LET s1 == [s EXCEPT !.mState = GOT_AUTH]
        s2 == IF s.mRole = REMOTE_CALLED_US
              THEN sendPeers(sendAuth(s1, c, ctx), ctx, env)
              ELSE s1
    IN
    IF ~env.accept
    THEN drop(s2, "peer rejected", WE_DROPPED_REMOTE, FLUSH_WRITE_QUEUE)
    ELSE
    LET bothWantBytes ==
            /\ c.OVERLAY_PROTOCOL_VERSION >=
                   FIRST_VERSION_SUPPORTING_FLOW_CONTROL_IN_BYTES
            /\ s2.mRemoteOverlayVersion >=
                   FIRST_VERSION_SUPPORTING_FLOW_CONTROL_IN_BYTES
            /\ msg.flags = AUTH_MSG_FLAG_FLOW_CONTROL_BYTES_REQUESTED
            /\ c.ENABLE_FLOW_CONTROL_BYTES
    IN  sendGetScpState(startFlowControl(s2, ctx, bothWantBytes), ctx)

\* recvAuth that asks for the SCP state before it starts flow control
recvAuth_scpStateFirst(s, c, ctx, env, msg) ==
    IF s.mState # GOT_HELLO
    THEN sendErrorAndDrop(s, ctx, "ERR_MISC", "out-of-order AUTH message",
                          IGNORE_WRITE_QUEUE)
    ELSE IF isAuthenticated(s)
    THEN sendErrorAndDrop(s, ctx, "ERR_MISC", "out-of-order AUTH message",
                          IGNORE_WRITE_QUEUE)
    ELSE
    LET s1 == [s EXCEPT !.mState = GOT_AUTH]
        s2 == IF s.mRole = REMOTE_CALLED_US
              THEN sendPeers(sendAuth(s1, c, ctx), ctx, env)
              ELSE s1
    IN
    IF ~env.accept
    THEN sendErrorAndDrop(s2, ctx, "ERR_LOAD", "peer rejected",
                          FLUSH_WRITE_QUEUE)
    ELSE
    LET enableBytes ==
            /\ c.OVERLAY_PROTOCOL_VERSION >=
                   FIRST_VERSION_SUPPORTING_FLOW_CONTROL_IN_BYTES
            /\ s2.mRemoteOverlayVersion >=
                   FIRST_VERSION_SUPPORTING_FLOW_CONTROL_IN_BYTES
        bothWantBytes ==
            /\ enableBytes
            /\ msg.flags = AUTH_MSG_FLAG_FLOW_CONTROL_BYTES_REQUESTED
            /\ c.ENABLE_FLOW_CONTROL_BYTES
    IN  startFlowControl(sendGetScpState(s2, ctx), ctx, bothWantBytes)

\* recvAuth that enables the byte axis whenever the peer asks for it
recvAuth_remoteDecides(s, c, ctx, env, msg) ==
    IF s.mState # GOT_HELLO
    THEN sendErrorAndDrop(s, ctx, "ERR_MISC", "out-of-order AUTH message",
                          IGNORE_WRITE_QUEUE)
    ELSE IF isAuthenticated(s)
    THEN sendErrorAndDrop(s, ctx, "ERR_MISC", "out-of-order AUTH message",
                          IGNORE_WRITE_QUEUE)
    ELSE
    LET s1 == [s EXCEPT !.mState = GOT_AUTH]
        s2 == IF s.mRole = REMOTE_CALLED_US
              THEN sendPeers(sendAuth(s1, c, ctx), ctx, env)
              ELSE s1
    IN
    IF ~env.accept
    THEN sendErrorAndDrop(s2, ctx, "ERR_LOAD", "peer rejected",
                          FLUSH_WRITE_QUEUE)
    ELSE
    LET enableBytes ==
            /\ c.OVERLAY_PROTOCOL_VERSION >=
                   FIRST_VERSION_SUPPORTING_FLOW_CONTROL_IN_BYTES
            /\ s2.mRemoteOverlayVersion >=
                   FIRST_VERSION_SUPPORTING_FLOW_CONTROL_IN_BYTES
        bothWantBytes ==
            /\ enableBytes
            /\ msg.flags = AUTH_MSG_FLAG_FLOW_CONTROL_BYTES_REQUESTED
    IN  sendGetScpState(startFlowControl(s2, ctx, bothWantBytes), ctx)

\* recvAuth that tests only whether the session is authenticated
recvAuth_anyState(s, c, ctx, env, msg) ==
    IF isAuthenticated(s)
    THEN sendErrorAndDrop(s, ctx, "ERR_MISC", "out-of-order AUTH message",
                          IGNORE_WRITE_QUEUE)
    ELSE
    LET s1 == [s EXCEPT !.mState = GOT_AUTH]
        s2 == IF s.mRole = REMOTE_CALLED_US
              THEN sendPeers(sendAuth(s1, c, ctx), ctx, env)
              ELSE s1
    IN
    IF ~env.accept
    THEN sendErrorAndDrop(s2, ctx, "ERR_LOAD", "peer rejected",
                          FLUSH_WRITE_QUEUE)
    ELSE
    LET enableBytes ==
            /\ c.OVERLAY_PROTOCOL_VERSION >=
                   FIRST_VERSION_SUPPORTING_FLOW_CONTROL_IN_BYTES
            /\ s2.mRemoteOverlayVersion >=
                   FIRST_VERSION_SUPPORTING_FLOW_CONTROL_IN_BYTES
        bothWantBytes ==
            /\ enableBytes
            /\ msg.flags = AUTH_MSG_FLAG_FLOW_CONTROL_BYTES_REQUESTED
            /\ c.ENABLE_FLOW_CONTROL_BYTES
    IN  sendGetScpState(startFlowControl(s2, ctx, bothWantBytes), ctx)

\* Peer::recvAuth
recvAuth(s, c, ctx, env, msg) ==
    IF s.mState # GOT_HELLO
    THEN sendErrorAndDrop(s, ctx, "ERR_MISC", "out-of-order AUTH message",
                          IGNORE_WRITE_QUEUE)
    ELSE IF isAuthenticated(s)
    THEN sendErrorAndDrop(s, ctx, "ERR_MISC", "out-of-order AUTH message",
                          IGNORE_WRITE_QUEUE)
    ELSE
    LET s1 == [s EXCEPT !.mState = GOT_AUTH]
        s2 == IF s.mRole = REMOTE_CALLED_US
              THEN sendPeers(sendAuth(s1, c, ctx), ctx, env)
              ELSE s1
    IN
    IF ~env.accept
    THEN sendErrorAndDrop(s2, ctx, "ERR_LOAD", "peer rejected",
                          FLUSH_WRITE_QUEUE)
    ELSE
    LET enableBytes ==
            /\ c.OVERLAY_PROTOCOL_VERSION >=
                   FIRST_VERSION_SUPPORTING_FLOW_CONTROL_IN_BYTES
            /\ s2.mRemoteOverlayVersion >=
                   FIRST_VERSION_SUPPORTING_FLOW_CONTROL_IN_BYTES
        bothWantBytes ==
            /\ enableBytes
            /\ msg.flags = AUTH_MSG_FLAG_FLOW_CONTROL_BYTES_REQUESTED
            /\ c.ENABLE_FLOW_CONTROL_BYTES
    IN  sendGetScpState(startFlowControl(s2, ctx, bothWantBytes), ctx)

recvError(s, msg) ==
    drop(s, msg.code, REMOTE_DROPPED_US, IGNORE_WRITE_QUEUE)

(* ------------------------- adverts and demands ------------------------ *)

\* the keys of the RandomEvictionCache mAdvertHistory, a set of
\* <<hash, ledger sequence>> with one entry for a hash
Keys(cache) == {e[1] : e \in cache}

\* the k-th smallest element of a non-empty set of numbers
RECURSIVE Nth(_, _)
Nth(S, k) ==
    LET m == CHOOSE x \in S : \A y \in S : x <= y
    IN  IF k <= 1 THEN m ELSE Nth(S \ {m}, k - 1)

\* RandomEvictionCache::put: the value of a known key is replaced; a new
\* key takes the place of an entry picked at random when the cache is full
put(cache, maxSize, k, v, rand) ==
    IF k \in Keys(cache)
    THEN {e \in cache : e[1] # k} \cup {<<k, v>>}
    ELSE IF Cardinality(cache) >= maxSize
    THEN LET victim == Nth(Keys(cache), 1 + (rand % Cardinality(cache)))
         IN  {e \in cache : e[1] # victim} \cup {<<k, v>>}
    ELSE cache \cup {<<k, v>>}

\* RandomEvictionCache::erase_if with the predicate of Peer::clearBelow
erase_if_below(cache, ledgerSeq) == {e \in cache : ~(e[2] < ledgerSeq)}

\* Peer::peerKnowsHash
peerKnowsHash(s, hash) == hash \in Keys(s.mAdvertHistory)

\* Peer::rememberHash; rand is the random choice of the cache
rememberHash(s, hash, ledgerSeq, rand) ==
    [s EXCEPT !.mAdvertHistory =
                  put(@, ADVERT_CACHE_SIZE, hash, ledgerSeq, rand)]

\* Peer::recvFloodAdvert: env.ledgerSeq is
\* Herder::trackingConsensusLedgerIndex()
RECURSIVE rememberAll(_, _, _, _)
rememberAll(s, hashes, ledgerSeq, rand) ==
    IF hashes = <<>>
    THEN s
    ELSE rememberAll(rememberHash(s, Head(hashes), ledgerSeq, rand),
                     Tail(hashes), ledgerSeq, rand)

recvFloodAdvert(s, env, msg) ==
    rememberAll(s, msg.txHashes, env.ledgerSeq, env.rand)

\* clearBelow that also forgets the entries of the ledger itself
clearBelow_inclusive(s, ledgerSeq) ==
    [s EXCEPT !.mAdvertHistory = erase_if_below(@, ledgerSeq + 1)]

\* Peer::clearBelow
clearBelow(s, ledgerSeq) ==
    [s EXCEPT !.mAdvertHistory = erase_if_below(@, ledgerSeq)]

\* Peer::flushAdvert: the batch becomes one FLOOD_ADVERT whose sendMessage
\* is posted to the main thread (postedSend)
flushAdvert(s) ==
    IF Len(s.mTxHashesToAdvertise) > 0
    THEN [s EXCEPT !.postedSend =
                       Append(@, [HcnetMessage("FLOOD_ADVERT") EXCEPT
                                     !.txHashes = s.mTxHashesToAdvertise]),
                   !.mTxHashesToAdvertise = <<>>]
    ELSE s

\* Peer::startAdvertTimer
startAdvertTimer(s, down) ==
    IF shouldAbort(s, down) THEN s ELSE [s EXCEPT !.mAdvertTimer = TRUE]

\* the wait of mAdvertTimer ends without error
advertTimerExpired(s) == flushAdvert([s EXCEPT !.mAdvertTimer = FALSE])

\* OverlayManager::getMaxAdvertSize: the ceiling of the batch, which the
\* overlay manager derives from the ledger; maxAdvertSize is its answer
getMaxAdvertSize(s) == s.maxAdvertSize

\* queueTxHashToAdvertise that takes a hash whatever the size of the batch
queueTxHashToAdvertise_noBound(s, down, txHash) ==
    LET s1 == IF s.mTxHashesToAdvertise = <<>>
              THEN startAdvertTimer(s, down) ELSE s
        s2 == [s1 EXCEPT !.mTxHashesToAdvertise = Append(@, txHash),
                         !.accepted = Append(@, txHash)]
    IN  IF Len(s2.mTxHashesToAdvertise) >= getMaxAdvertSize(s2)
        THEN flushAdvert(s2)
        ELSE s2

\* queueTxHashToAdvertise that flushes only when the timer fires
queueTxHashToAdvertise_noFlush(s, down, txHash) ==
    LET s1 == IF s.mTxHashesToAdvertise = <<>>
              THEN startAdvertTimer(s, down) ELSE s
    IN  IF Len(s1.mTxHashesToAdvertise) = TX_ADVERT_VECTOR_MAX_SIZE
        THEN s1
        ELSE [s1 EXCEPT !.mTxHashesToAdvertise = Append(@, txHash),
                        !.accepted = Append(@, txHash)]

\* Peer::queueTxHashToAdvertise; accepted lists the hashes put into the
\* batch
queueTxHashToAdvertise(s, down, txHash) ==
    LET s1 == IF s.mTxHashesToAdvertise = <<>>
              THEN startAdvertTimer(s, down) ELSE s
    IN  IF Len(s1.mTxHashesToAdvertise) = TX_ADVERT_VECTOR_MAX_SIZE
        THEN s1
        ELSE LET s2 == [s1 EXCEPT !.mTxHashesToAdvertise = Append(@, txHash),
                                  !.accepted = Append(@, txHash)]
             IN  IF Len(s2.mTxHashesToAdvertise) >= getMaxAdvertSize(s2)
                 THEN flushAdvert(s2)
                 ELSE s2

\* Peer::startExecutionDelayedTimer
startExecutionDelayedTimer(s) == [s EXCEPT !.mDelayedExecutionTimer = TRUE]

\* fulfillDemand that counts a banned hash as unknown
RECURSIVE fulfillDemand_bannedAsUnknown(_, _, _, _)
fulfillDemand_bannedAsUnknown(s, ctx, env, hashes) ==
    IF hashes = <<>>
    THEN s
    ELSE LET h == Head(hashes)
             s1 == IF h \in env.txKnown
                   THEN sendMessage(
                            [s EXCEPT !.mMessagesFulfilled = @ + 1], ctx,
                            [HcnetMessage("TRANSACTION") EXCEPT
                                !.txHashes = <<h>>])
                   ELSE [s EXCEPT !.mUnknownMessageUnfulfilled = @ + 1]
         IN  fulfillDemand_bannedAsUnknown(s1, ctx, env, Tail(hashes))

\* Peer::fulfillDemand: env.txKnown are the hashes Herder::getTx finds,
\* env.txBanned the ones Herder::isBannedTx tells banned; the TRANSACTION
\* of hash h carries h in txHashes
RECURSIVE fulfillDemand(_, _, _, _)
fulfillDemand(s, ctx, env, hashes) ==
    IF hashes = <<>>
    THEN s
    ELSE LET h == Head(hashes)
             s1 == IF h \in env.txKnown
                   THEN sendMessage(
                            [s EXCEPT !.mMessagesFulfilled = @ + 1], ctx,
                            [HcnetMessage("TRANSACTION") EXCEPT
                                !.txHashes = <<h>>])
                   ELSE IF h \in env.txBanned
                   THEN [s EXCEPT !.mBannedMessageUnfulfilled = @ + 1]
                   ELSE [s EXCEPT !.mUnknownMessageUnfulfilled = @ + 1]
         IN  fulfillDemand(s1, ctx, env, Tail(hashes))

\* Peer::recvFloodDemand
recvFloodDemand(s, ctx, env, msg) == fulfillDemand(s, ctx, env, msg.txHashes)

(* ------------------------------ dispatch ------------------------------ *)

recvGetPeers(s, ctx, env) == sendPeers(s, ctx, env)

\* env.qsetKnown: Herder::getQSet found the quorum set
recvGetSCPQuorumSet(s, ctx, env, msg) ==
    IF env.qsetKnown
    THEN sendSCPQuorumSet(s, ctx, msg.hash)
    ELSE sendDontHave(s, ctx, msg.hash)

\* Peer::recvDontHave; Herder::peerDoesntHave is not modelled
recvDontHave(s, ctx, msg) == maybeProcessPingResponse(s, ctx, msg.hash)

\* Peer::recvSCPQuorumSet; Herder::recvSCPQuorumSet is not modelled
recvSCPQuorumSet(s, ctx, msg) == maybeProcessPingResponse(s, ctx, msg.hash)

recvSendMore(s, ctx, msg) == maybeReleaseCapacityAndTriggerSend(s, ctx, msg)

\* Peer::recvRawMessage.  recorded lists the messages handed to
\* OverlayManager::recordMessageMetric, which are the ones a handler is
\* called for, by arrival number (the last entry of delivered).
recvRawMessage(s, c, ctx, env, down, msg) ==
    IF shouldAbort(s, down)
    THEN s
    ELSE IF ~isAuthenticated(s) /\ msg.type # "HELLO" /\ msg.type # "AUTH"
            /\ msg.type # "ERROR_MSG"
    THEN drop(s, "received message before completed handshake",
              WE_DROPPED_REMOTE, IGNORE_WRITE_QUEUE)
    ELSE
    LET r == [s EXCEPT !.recorded =
                           Append(@, [n |-> s.delivered[Len(s.delivered)].n,
                                      type |-> msg.type])]
    IN  CASE msg.type = "ERROR_MSG" -> recvError(r, msg)
          [] msg.type = "HELLO" -> recvHello(r, c, ctx, env, msg.hello)
          [] msg.type = "AUTH" -> recvAuth(r, c, ctx, env, msg)
          [] msg.type = "DONT_HAVE" -> recvDontHave(r, ctx, msg)
          [] msg.type = "GET_PEERS" -> recvGetPeers(r, ctx, env)
          [] msg.type = "PEERS" -> r
          [] msg.type = "GET_SCP_QUORUMSET" ->
                 recvGetSCPQuorumSet(r, ctx, env, msg)
          [] msg.type = "SCP_QUORUMSET" -> recvSCPQuorumSet(r, ctx, msg)
          [] msg.type = "GET_SCP_STATE" -> r
          [] msg.type \in {"SEND_MORE", "SEND_MORE_EXTENDED"} ->
                 IF ~isSendMoreValid(r, msg)
                 THEN drop(r, "invalid SEND_MORE", WE_DROPPED_REMOTE,
                           IGNORE_WRITE_QUEUE)
                 ELSE recvSendMore(r, ctx, msg)
          [] msg.type = "FLOOD_ADVERT" -> recvFloodAdvert(r, env, msg)
          [] msg.type = "FLOOD_DEMAND" -> recvFloodDemand(r, ctx, env, msg)
          [] OTHER -> r

\* the scheduler class with the consensus queries posted as normal
ActionTypeOf_queriesNormal(t) ==
    IF t \in {"TRANSACTION", "FLOOD_ADVERT", "FLOOD_DEMAND"}
    THEN DROPPABLE_ACTION ELSE NORMAL_ACTION

\* the scheduler class Peer::recvMessage(HcnetMessage) posts a type with
ActionTypeOf(t) ==
    IF t \in {"TRANSACTION", "FLOOD_ADVERT", "FLOOD_DEMAND", "GET_TX_SET",
              "GET_SCP_QUORUMSET", "GET_SCP_STATE"}
    THEN DROPPABLE_ACTION ELSE NORMAL_ACTION

ignoreIfOutOfSync(t) == t \in {"TRANSACTION", "FLOOD_ADVERT", "FLOOD_DEMAND"}

\* the call of recvRawMessage on the n-th message that arrived: delivered
\* lists the messages recvRawMessage was entered for, by arrival number
handOver(s, c, ctx, env, down, n, msg) ==
    recvRawMessage(
        IF shouldAbort(s, down)
        THEN s
        ELSE [s EXCEPT !.delivered =
                           Append(@, [n |-> n, type |-> msg.type])],
        c, ctx, env, down, msg)

\* recvMessage that handles a grant at once, like a handshake message
recvMessage_sendMoreInline(s, c, ctx, env, down, msg) ==
    IF shouldAbort(s, down)
    THEN s
    ELSE IF msg.type \in {"HELLO", "AUTH", "SEND_MORE", "SEND_MORE_EXTENDED"}
    THEN handOver(s, c, ctx, env, down, Len(s.handled), msg)
    ELSE LET s1 == beginMessageProcessing(s, msg)
         IN  IF ~env.isSynced /\ ignoreIfOutOfSync(msg.type)
             THEN endMessageProcessing(s1, down, msg)
             ELSE [s1 EXCEPT !.posted =
                      Append(@, [msg |-> msg,
                                 type |-> ActionTypeOf(msg.type),
                                 n |-> Len(s.handled)])]

\* recvMessage whose discard of a flood message keeps the capacity locked
recvMessage_discardKeepsCapacity(s, c, ctx, env, down, msg) ==
    IF shouldAbort(s, down)
    THEN s
    ELSE IF msg.type \in {"HELLO", "AUTH"}
    THEN handOver(s, c, ctx, env, down, Len(s.handled), msg)
    ELSE LET s1 == beginMessageProcessing(s, msg)
         IN  IF ~env.isSynced /\ ignoreIfOutOfSync(msg.type)
             THEN s1
             ELSE [s1 EXCEPT !.posted =
                      Append(@, [msg |-> msg,
                                 type |-> ActionTypeOf(msg.type),
                                 n |-> Len(s.handled)])]

\* Peer::recvMessage(HcnetMessage const&): HELLO and AUTH are handled at
\* once; every other message is wrapped in a MsgCapacityTracker and posted
\* to the main thread.  The tracker's destructor runs endMessageProcessing.
\* The message is the one appended to handled last.
recvMessage(s, c, ctx, env, down, msg) ==
    IF shouldAbort(s, down)
    THEN s
    ELSE IF msg.type \in {"HELLO", "AUTH"}
    THEN handOver(s, c, ctx, env, down, Len(s.handled), msg)
    ELSE LET s1 == beginMessageProcessing(s, msg)
         IN  IF ~env.isSynced /\ ignoreIfOutOfSync(msg.type)
             THEN endMessageProcessing(s1, down, msg)
             ELSE [s1 EXCEPT !.posted =
                      Append(@, [msg |-> msg,
                                 type |-> ActionTypeOf(msg.type),
                                 n |-> Len(s.handled)])]

\* recvMessage(AuthenticatedMessage const&) without the sequence comparison
recvAuthenticatedMessage_noSequenceCheck(s, c, ctx, env, down, amsg) ==
    IF shouldAbort(s, down)
    THEN s
    ELSE
    LET passOn(x) ==
            recvMessage([x EXCEPT !.handled =
                            Append(@, [am |-> amsg, st |-> s.mState])],
                        c, ctx, env, down, amsg.message)
    IN
    IF s.mState >= GOT_HELLO /\ amsg.message.type # "ERROR_MSG"
    THEN IF ~hmacSha256Verify(amsg.mac, s.mRecvMacKey, amsg.sequence,
                              amsg.message)
         THEN sendErrorAndDrop([s EXCEPT !.mRecvMacSeq = @ + 1], ctx,
                               "ERR_AUTH", "unexpected MAC",
                               IGNORE_WRITE_QUEUE)
         ELSE passOn([s EXCEPT !.mRecvMacSeq = @ + 1])
    ELSE passOn(s)

\* recvMessage(AuthenticatedMessage const&) with the counter advanced only
\* for a message that is passed on
recvAuthenticatedMessage_countsAccepted(s, c, ctx, env, down, amsg) ==
    IF shouldAbort(s, down)
    THEN s
    ELSE
    LET passOn(x) ==
            recvMessage([x EXCEPT !.handled =
                            Append(@, [am |-> amsg, st |-> s.mState])],
                        c, ctx, env, down, amsg.message)
    IN
    IF s.mState >= GOT_HELLO /\ amsg.message.type # "ERROR_MSG"
    THEN IF amsg.sequence # s.mRecvMacSeq
         THEN sendErrorAndDrop(s, ctx, "ERR_AUTH", "unexpected auth sequence",
                               IGNORE_WRITE_QUEUE)
         ELSE IF ~hmacSha256Verify(amsg.mac, s.mRecvMacKey, amsg.sequence,
                                   amsg.message)
         THEN sendErrorAndDrop(s, ctx, "ERR_AUTH", "unexpected MAC",
                               IGNORE_WRITE_QUEUE)
         ELSE passOn([s EXCEPT !.mRecvMacSeq = @ + 1])
    ELSE passOn(s)

\* Peer::recvMessage(AuthenticatedMessage const&).  handled lists the frames
\* whose message was passed on to recvMessage(HcnetMessage const&).
recvAuthenticatedMessage(s, c, ctx, env, down, amsg) ==
    IF shouldAbort(s, down)
    THEN s
    ELSE
    LET passOn(x) ==
            recvMessage([x EXCEPT !.handled =
                            Append(@, [am |-> amsg, st |-> s.mState])],
                        c, ctx, env, down, amsg.message)
    IN
    IF s.mState >= GOT_HELLO /\ amsg.message.type # "ERROR_MSG"
    THEN IF amsg.sequence # s.mRecvMacSeq
         THEN sendErrorAndDrop([s EXCEPT !.mRecvMacSeq = @ + 1], ctx,
                               "ERR_AUTH", "unexpected auth sequence",
                               IGNORE_WRITE_QUEUE)
         ELSE IF ~hmacSha256Verify(amsg.mac, s.mRecvMacKey, amsg.sequence,
                                   amsg.message)
         THEN sendErrorAndDrop([s EXCEPT !.mRecvMacSeq = @ + 1], ctx,
                               "ERR_AUTH", "unexpected MAC",
                               IGNORE_WRITE_QUEUE)
         ELSE passOn([s EXCEPT !.mRecvMacSeq = @ + 1])
    ELSE passOn(s)

\* the task Peer::recvMessage posted: recvRawMessage, then the tracker dies
runPosted(s, c, ctx, env, down, task) ==
    endMessageProcessing(
        handOver([s EXCEPT !.posted = Tail(@)], c, ctx, env, down, task.n,
                task.msg),
        down, task.msg)

(* --------------------------- connect, timers -------------------------- *)

\* connectHandler whose success branch also runs after the drop
connectHandler_noElse(s, c, ctx, error) ==
    LET s1 == IF error
              THEN drop(s, "unable to connect", WE_DROPPED_REMOTE,
                        IGNORE_WRITE_QUEUE)
              ELSE s
    IN  sendHello([s1 EXCEPT !.mState = CONNECTED], c, ctx)

\* connectHandler that forgets to send HELLO
connectHandler_noHello(s, c, ctx, error) ==
    IF error
    THEN drop(s, "unable to connect", WE_DROPPED_REMOTE, IGNORE_WRITE_QUEUE)
    ELSE [s EXCEPT !.mState = CONNECTED]

\* Peer::connectHandler
connectHandler(s, c, ctx, error) ==
    IF error
    THEN drop(s, "unable to connect", WE_DROPPED_REMOTE, IGNORE_WRITE_QUEUE)
    ELSE sendHello([s EXCEPT !.mState = CONNECTED], c, ctx)

\* Peer::startRecurrentTimer; mRecurringTimer tells whether a wait is pending
startRecurrentTimer(s, ctx, down) ==
    IF shouldAbort(s, down)
    THEN [s EXCEPT !.mRecurringTimer = FALSE]
    ELSE [pingPeer(s, ctx) EXCEPT
             !.mRecurringTimer = TRUE,
             !.mRecurringTimerExpiry = ctx.now + RECURRENT_TIMER_PERIOD]

\* Peer::getIOTimeout
getIOTimeout(s, c) ==
    IF isAuthenticated(s)
    THEN c.PEER_TIMEOUT
    ELSE c.PEER_AUTHENTICATION_TIMEOUT

\* Peer::receivedBytes
receivedBytes(s, down, clock) ==
    IF shouldAbort(s, down) THEN s ELSE [s EXCEPT !.mLastRead = clock]

\* FlowControl::getOutboundCapacityTimestamp: the time of the peer's last
\* grant, if flow control has started
getOutboundCapacityTimestamp(s) == s.mOutboundCapacityTimestamp

\* timeouts that takes one quiet direction for an idle connection
timeouts_idleEither(s, c, clock) ==
    LET timeout == getIOTimeout(s, c)
        stamp == getOutboundCapacityTimestamp(s)
    IN  [idle |-> \/ clock - s.mLastRead >= timeout
                  \/ clock - s.mLastWrite >= timeout,
         flowIdle |-> /\ stamp # nullopt
                      /\ clock - stamp[1] >= PEER_SEND_MODE_IDLE_TIMEOUT,
         straggling |-> clock - s.mEnqueueTimeOfLastWrite >=
                            c.PEER_STRAGGLER_TIMEOUT]

\* timeouts that measures the grants from the last read
timeouts_flowIdleSinceRead(s, c, clock) ==
    LET timeout == getIOTimeout(s, c)
        stamp == getOutboundCapacityTimestamp(s)
    IN  [idle |-> /\ clock - s.mLastRead >= timeout
                  /\ clock - s.mLastWrite >= timeout,
         flowIdle |-> /\ stamp # nullopt
                      /\ clock - s.mLastRead >= PEER_SEND_MODE_IDLE_TIMEOUT,
         straggling |-> clock - s.mEnqueueTimeOfLastWrite >=
                            c.PEER_STRAGGLER_TIMEOUT]

\* timeouts that measures the straggler from the last completed write
timeouts_stragglerSinceWrite(s, c, clock) ==
    LET timeout == getIOTimeout(s, c)
        stamp == getOutboundCapacityTimestamp(s)
    IN  [idle |-> /\ clock - s.mLastRead >= timeout
                  /\ clock - s.mLastWrite >= timeout,
         flowIdle |-> /\ stamp # nullopt
                      /\ clock - stamp[1] >= PEER_SEND_MODE_IDLE_TIMEOUT,
         straggling |-> clock - s.mLastWrite >= c.PEER_STRAGGLER_TIMEOUT]

\* the three comparisons of Peer::recurrentTimerExpired at time clock
timeouts(s, c, clock) ==
    LET timeout == getIOTimeout(s, c)
        stamp == getOutboundCapacityTimestamp(s)
    IN  [idle |-> /\ clock - s.mLastRead >= timeout
                  /\ clock - s.mLastWrite >= timeout,
         flowIdle |-> /\ stamp # nullopt
                      /\ clock - stamp[1] >= PEER_SEND_MODE_IDLE_TIMEOUT,
         straggling |-> clock - s.mEnqueueTimeOfLastWrite >=
                            c.PEER_STRAGGLER_TIMEOUT]

\* Peer::recurrentTimerExpired without error; t holds the three comparisons
\* of the clock with mLastRead and mLastWrite, with the outbound capacity
\* timestamp and with mEnqueueTimeOfLastWrite
recurrentTimerExpired(s, ctx, down, t) ==
    IF t.idle
    THEN drop(s, "idle timeout", WE_DROPPED_REMOTE, IGNORE_WRITE_QUEUE)
    ELSE IF t.flowIdle
    THEN drop(s, "idle timeout (no new flood requests)", WE_DROPPED_REMOTE,
              IGNORE_WRITE_QUEUE)
    ELSE IF t.straggling
    THEN drop(s, "straggling (cannot keep up)", WE_DROPPED_REMOTE,
              IGNORE_WRITE_QUEUE)
    ELSE startRecurrentTimer(s, ctx, down)

(* ---------------------------- state machine --------------------------- *)

VARIABLES
    peer,     \* the two sessions
    chan,     \* chan[p]: the frames on the wire towards p, oldest first
    cfg,      \* cfg[p]: the configuration of the node that owns session p
    down,     \* down[p]: OverlayManager::isShuttingDown() of p's node
    nAsync,   \* asynchronous events so far
    now,      \* now[p]: the clock of the node that owns session p, seconds
    ev,       \* the last call into a session: who, what, its inputs
    ltx,      \* the ledger the operations of a transaction apply to
    applied   \* the last operation applied: its frame, result and ledgers

vars == <<peer, chan, cfg, down, nAsync, now, ev, ltx, applied>>

\* the ledger and the operation of a node that applies no transaction
NoLedger == [header |-> [ledgerSeq |-> 0], entries |-> <<>>]

NoOperation == [op |-> "none"]

\* the configuration of a node; the overlay versions span [27, 29]
NodeCfg(id) ==
    [NETWORK_ID |-> 1, OVERLAY_PROTOCOL_MIN_VERSION |-> 27,
     OVERLAY_PROTOCOL_VERSION |-> 29, NODE_ID |-> id, PEER_PORT |-> 11624 + id,
     ENABLE_FLOW_CONTROL_BYTES |-> TRUE, banned |-> {},
     PEER_AUTHENTICATION_TIMEOUT |-> 2, PEER_TIMEOUT |-> 10,
     PEER_STRAGGLER_TIMEOUT |-> 15,
     certExpired |-> FALSE, ephKey |-> 11 * id]

WithVersions(c, lo, hi) ==
    [c EXCEPT !.OVERLAY_PROTOCOL_MIN_VERSION = lo,
              !.OVERLAY_PROTOCOL_VERSION = hi]

\* the pairs (initiator's node, responder's node): two compatible nodes
\* with and without the byte axis, and the ways a pair can be incompatible
Scenarios ==
    {<<NodeCfg(1), NodeCfg(2)>>,
     <<NodeCfg(1), WithVersions(NodeCfg(2), 27, 27)>>,
     <<NodeCfg(1), [NodeCfg(2) EXCEPT !.ENABLE_FLOW_CONTROL_BYTES = FALSE]>>,
     <<NodeCfg(1), [NodeCfg(2) EXCEPT !.NETWORK_ID = 2]>>,
     <<NodeCfg(1), WithVersions(NodeCfg(2), 26, 26)>>,
     <<NodeCfg(1), WithVersions(NodeCfg(2), 30, 31)>>,
     <<NodeCfg(1), [NodeCfg(2) EXCEPT !.certExpired = TRUE]>>,
     <<[NodeCfg(1) EXCEPT !.certExpired = TRUE], NodeCfg(2)>>,
     <<NodeCfg(1), [NodeCfg(2) EXCEPT !.banned = {1}]>>,
     <<[NodeCfg(1) EXCEPT !.banned = {2}], NodeCfg(2)>>,
     \* the initiator dialled its own node, or a node run with its seed
     <<NodeCfg(1), [NodeCfg(1) EXCEPT !.ephKey = 22]>>,
     <<NodeCfg(1), WithVersions([NodeCfg(1) EXCEPT !.ephKey = 22], 30, 31)>>}

\* the configurations under which the handshake is meant to succeed
CfgOk(ca, cb) ==
    /\ ca.banned = {} /\ cb.banned = {}
    /\ cb.NETWORK_ID = ca.NETWORK_ID
    /\ cb.NODE_ID # ca.NODE_ID
    /\ ~ca.certExpired /\ ~cb.certExpired
    /\ cb.OVERLAY_PROTOCOL_VERSION >= ca.OVERLAY_PROTOCOL_MIN_VERSION
    /\ cb.OVERLAY_PROTOCOL_MIN_VERSION <= ca.OVERLAY_PROTOCOL_VERSION

NoFrame == [message |-> HcnetMessage("NONE"), sequence |-> 0, mac |-> ZeroMac]

\* the answers of the collaborators during one call
EnvDefault ==
    [ipEmpty |-> FALSE, authDup |-> FALSE, pendDup |-> FALSE,
     accept |-> TRUE, peersKnown |-> FALSE, isSynced |-> TRUE,
     qsetKnown |-> FALSE,
     ledgerSeq |-> 1, rand |-> 0, txKnown |-> {}, txBanned |-> {},
     actionType |-> NORMAL_ACTION, overloaded |-> FALSE]

\* the answers a handler of message type t can read
EnvFor(t) ==
    CASE t = "HELLO" ->
           {[EnvDefault EXCEPT !.ipEmpty = i, !.authDup = a, !.pendDup = d] :
                i \in BOOLEAN, a \in BOOLEAN, d \in BOOLEAN}
      [] t = "AUTH" ->
           {[EnvDefault EXCEPT !.accept = a, !.peersKnown = k] :
                a \in BOOLEAN, k \in BOOLEAN}
      [] t = "GET_PEERS" ->
           {[EnvDefault EXCEPT !.peersKnown = k] : k \in BOOLEAN}
      [] t = "GET_SCP_QUORUMSET" ->
           {[EnvDefault EXCEPT !.qsetKnown = k] : k \in BOOLEAN}
      [] t = "TRANSACTION" ->
           {[EnvDefault EXCEPT !.isSynced = k] : k \in BOOLEAN}
      [] t = "FLOOD_ADVERT" ->
           {[EnvDefault EXCEPT !.isSynced = k, !.ledgerSeq = l, !.rand = r] :
                k \in BOOLEAN, l \in 1..MaxLedger,
                r \in 0..(ADVERT_CACHE_SIZE - 1)}
      [] t = "FLOOD_DEMAND" ->
           {[EnvDefault EXCEPT !.isSynced = k, !.txKnown = kn,
                               !.txBanned = bn] :
                k \in BOOLEAN, kn \in {{}, {1}}, bn \in {{}, {2}}}
      [] OTHER -> {EnvDefault}

Summary(s) ==
    [mState |-> s.mState, mRecvMacSeq |-> s.mRecvMacSeq,
     mSendMacSeq |-> s.mSendMacSeq, nWritten |-> Len(s.written),
     nHandled |-> Len(s.handled)]

Event(p, op, amsg, env) ==
    [peer |-> p, op |-> op, am |-> amsg, env |-> env, down |-> down[p],
     pre |-> Summary(peer[p])]

\* the frames session p wrote during a call that took it from s to s2
NewFrames(s, s2) ==
    [i \in 1..(Len(s2.written) - Len(s.written)) |->
        s2.written[Len(s.written) + i].am]

\* session p becomes s2, its inbound wire becomes inbound, and what it wrote
\* is on the wire towards the other session
Becomes(p, s2, inbound) ==
    /\ peer' = [peer EXCEPT ![p] = s2]
    /\ chan' = [chan EXCEPT ![p] = inbound,
                            ![Other(p)] = @ \o NewFrames(peer[p], s2)]

Init ==
    /\ peer = [p \in Peers |-> NewPeer(RoleOf(p), IF p = "A" THEN 1 ELSE 2)]
    /\ chan = [p \in Peers |-> <<>>]
    /\ \E sc \in Scenarios : cfg = [p \in Peers |->
                                      IF p = "A" THEN sc[1] ELSE sc[2]]
    /\ down = [p \in Peers |-> FALSE]
    /\ nAsync = 0
    /\ ltx = NoLedger
    /\ applied = NoOperation
    /\ now = [p \in Peers |-> 0]
    /\ ev = [peer |-> "A", op |-> "init", am |-> NoFrame, env |-> EnvDefault,
             down |-> FALSE, pre |-> Summary(NewPeer(RoleOf("A"), 1))]

\* the asynchronous connect of the initiator completes.  A connect that is
\* still pending when the session is dropped completes with an error.
ConnectCompletes(p, errors) ==
    /\ peer[p].mRole = WE_CALLED_REMOTE
    /\ peer[p].connectPending
    /\ \E error \in errors :
        /\ peer[p].mState = CLOSING => error
        /\ Becomes(p, connectHandler(
                          [peer[p] EXCEPT !.connectPending = FALSE], cfg[p],
                          [actionType |-> NORMAL_ACTION, overloaded |-> FALSE,
                           now |-> now[p]],
                          error),
                   chan[p])
    /\ ev' = Event(p, "connectHandler", NoFrame, EnvDefault)
    /\ UNCHANGED <<cfg, ltx, applied, down, nAsync, now>>

\* the transport hands the next frame to Peer::recvMessage; it reads only
\* while the socket is open and canRead() holds
DeliverWith(p, envs) ==
    /\ chan[p] # <<>>
    /\ peer[p].mState \notin {CONNECTING, CLOSING}
    /\ canRead(peer[p])
    /\ \E env \in EnvFor(Head(chan[p]).message.type) \cap envs,
          ov \in BOOLEAN :
        /\ Becomes(p, recvAuthenticatedMessage(
                          peer[p], cfg[p],
                          [actionType |-> NORMAL_ACTION, overloaded |-> ov,
                           now |-> now[p]],
                          env, down[p], Head(chan[p])),
                   Tail(chan[p]))
        /\ ev' = Event(p, "recvMessage", Head(chan[p]), env)
    /\ UNCHANGED <<cfg, ltx, applied, down, nAsync, now>>

\* the main thread runs the oldest task the session posted
RunPosted(p) ==
    /\ peer[p].posted # <<>>
    /\ LET task == Head(peer[p].posted)
       IN  \E env \in EnvFor(task.msg.type), ov \in BOOLEAN :
            /\ Becomes(p, runPosted(peer[p], cfg[p],
                                    [actionType |-> task.type,
                                     overloaded |-> ov, now |-> now[p]],
                                    env, down[p], task),
                       chan[p])
            /\ ev' = Event(p, "recvRawMessage",
                           [NoFrame EXCEPT !.message = task.msg], env)
    /\ UNCHANGED <<cfg, ltx, applied, down, nAsync, now>>

\* the recurring timer fires without error
TimerFires(p, late) ==
    /\ peer[p].mRecurringTimer
    /\ nAsync < MaxAsync
    /\ \E i \in late, f \in late, g \in late :
        Becomes(p, recurrentTimerExpired(
                       peer[p],
                       [actionType |-> NORMAL_ACTION, overloaded |-> FALSE,
                           now |-> now[p]],
                       down[p],
                       [idle |-> i, flowIdle |-> f /\ peer[p].fcStarted,
                        straggling |-> g]),
                chan[p])
    /\ nAsync' = nAsync + 1
    /\ ev' = Event(p, "recurrentTimerExpired", NoFrame, EnvDefault)
    /\ UNCHANGED <<cfg, ltx, applied, down, now>>

\* the overlay manager drops the session
Drop(p) ==
    /\ nAsync < MaxAsync
    /\ peer[p].mState # CLOSING
    /\ Becomes(p, drop(peer[p], "dropped by overlay manager",
                       WE_DROPPED_REMOTE, IGNORE_WRITE_QUEUE),
               chan[p])
    /\ ev' = Event(p, "drop", NoFrame, EnvDefault)
    /\ nAsync' = nAsync + 1
    /\ UNCHANGED <<cfg, ltx, applied, down, now>>

\* the node of session p begins to shut its overlay down
OverlayShutdown(p) ==
    /\ nAsync < MaxAsync
    /\ ~down[p]
    /\ down' = [down EXCEPT ![p] = TRUE]
    /\ nAsync' = nAsync + 1
    /\ UNCHANGED <<peer, chan, cfg, ltx, applied, now, ev>>

ConnectHandler(p) == ConnectCompletes(p, BOOLEAN)

Deliver(p) == DeliverWith(p, EnvFor(Head(chan[p]).message.type))

RecurrentTimerExpired(p) == TimerFires(p, BOOLEAN)

(* ------------------------------ intruder ------------------------------ *)

\* HELLO and ERROR_MSG are not authenticated: anybody can send one.  The
\* forged HELLO is the one of node c with a listening port of 0.
ForgedHello(c, nonce) ==
    [overlayMinVersion |-> c.OVERLAY_PROTOCOL_MIN_VERSION,
     overlayVersion |-> c.OVERLAY_PROTOCOL_VERSION,
     networkID |-> c.NETWORK_ID, listeningPort |-> 0, peerID |-> c.NODE_ID,
     cert |-> getAuthCert(c), nonce |-> nonce]

\* what the intruder can put on the wire towards p: a forged HELLO, an
\* ERROR_MSG, an AUTH, a GET_PEERS and a TRANSACTION without a MAC, and any
\* frame the other session wrote before (a repeat when p has read it, a
\* reordering when it has not)
IntruderFrames(p) ==
    {[NoFrame EXCEPT !.message = [HcnetMessage("HELLO") EXCEPT !.hello =
         ForgedHello(cfg[Other(p)], peer[Other(p)].mSendNonce)]],
     [NoFrame EXCEPT !.message =
         [HcnetMessage("ERROR_MSG") EXCEPT !.code = "ERR_MISC"]],
     [NoFrame EXCEPT !.message = HcnetMessage("AUTH")],
     [NoFrame EXCEPT !.message = HcnetMessage("GET_PEERS")],
     [NoFrame EXCEPT !.message = HcnetMessage("TRANSACTION")]}
    \cup {peer[Other(p)].written[i].am :
             i \in 1..Len(peer[Other(p)].written)}

\* the intruder inserts a frame into the stream towards p, ahead of the
\* frames p has not read yet (a later position is this one, taken later)
Inject(p) ==
    /\ nAsync < MaxAsync
    /\ peer[p].mState # CLOSING
    /\ \E f \in IntruderFrames(p) :
        chan' = [chan EXCEPT ![p] = <<f>> \o @]
    /\ nAsync' = nAsync + 1
    /\ UNCHANGED <<peer, cfg, ltx, applied, down, now, ev>>

\* the intruder changes the MAC or the sequence number of the frame p reads
\* next
Corrupt(p) ==
    /\ nAsync < MaxAsync
    /\ peer[p].mState # CLOSING
    /\ chan[p] # <<>>
    /\ \E f \in {[chan[p][1] EXCEPT !.mac = <<"forged">>],
                  [chan[p][1] EXCEPT !.sequence = @ + 1]} :
            chan' = [chan EXCEPT ![p][1] = f]
    /\ nAsync' = nAsync + 1
    /\ UNCHANGED <<peer, cfg, ltx, applied, down, now, ev>>

Next ==
    \E p \in Peers :
        \/ ConnectHandler(p)
        \/ Deliver(p)
        \/ RunPosted(p)
        \/ RecurrentTimerExpired(p)
        \/ Drop(p)
        \/ OverlayShutdown(p)
        \/ Inject(p)
        \/ Corrupt(p)

Spec == Init /\ [][Next]_vars

(* --------- the handshake of two compatible nodes, undisturbed ---------- *)

\* collaborators that accept the peer: the address is known, the identity
\* is not connected yet, the overlay manager has a slot
EnvAccepting == {e \in UNION {EnvFor(t) : t \in {"HELLO", "AUTH", "GET_PEERS",
                                                "GET_SCP_QUORUMSET",
                                                "DONT_HAVE", "PEERS"}} :
                    ~e.ipEmpty /\ ~e.authDup /\ ~e.pendDup /\ e.accept}

ConnectOk(p) == ConnectCompletes(p, {FALSE})

DeliverOk(p) == DeliverWith(p, EnvAccepting)

TimerOk(p) == TimerFires(p, {FALSE})

HappyInit == Init /\ CfgOk(cfg["A"], cfg["B"])

HappyNext ==
    \E p \in Peers :
        \/ ConnectOk(p)
        \/ DeliverOk(p)
        \/ RunPosted(p)
        \/ TimerOk(p)

\* the event loop runs every ready handler and every posted task
SpecHappy == HappyInit /\ [][HappyNext]_vars /\ WF_vars(HappyNext)

(* ------------------ flood traffic between two sessions ----------------- *)

\* two compatible nodes, with the byte axis and without it
FlowScenarios ==
    {<<NodeCfg(1), NodeCfg(2)>>,
     <<NodeCfg(1), [NodeCfg(2) EXCEPT !.ENABLE_FLOW_CONTROL_BYTES = FALSE]>>}

FloodMessages ==
    {[HcnetMessage("TRANSACTION") EXCEPT !.body = b] : b \in 0..MaxBody}

\* the flood messages session s was asked to send: written, queued or shed
FloodWritten(s) ==
    Cardinality({i \in 1..Len(s.written) :
                    isFloodMessage(s.written[i].am.message)})

FloodAsked(s) == FloodWritten(s) + Len(s.mOutboundQueue) + s.mMessageDrop

\* the answers of the collaborators of two nodes that accept each other,
\* whose ledgers may not be synced
FlowEnvs ==
    EnvAccepting \cup {[EnvDefault EXCEPT !.isSynced = FALSE]}

FlowInit ==
    /\ Init
    /\ <<cfg["A"], cfg["B"]>> \in FlowScenarios

FlowDeliver(p) == DeliverWith(p, FlowEnvs)

\* the application of an authenticated session floods a message
SendFlood(p) ==
    /\ peer[p].mState = GOT_AUTH
    /\ FloodAsked(peer[p]) < MaxFlood
    /\ \E msg \in FloodMessages :
        /\ Becomes(p, sendMessage(peer[p],
                          [actionType |-> NORMAL_ACTION, overloaded |-> FALSE,
                           now |-> now[p]],
                          msg),
                   chan[p])
        /\ ev' = Event(p, "sendMessage", [NoFrame EXCEPT !.message = msg],
                       EnvDefault)
    /\ UNCHANGED <<cfg, ltx, applied, down, nAsync, now>>

\* a node that does not run this code writes a flood message without
\* waiting for credit, under its MAC key and sequence
Overrun(p) ==
    /\ nAsync < MaxAsync
    /\ peer[p].mState = GOT_AUTH
    /\ \E msg \in FloodMessages :
        Becomes(p, sendAuthenticatedMessage(
                       [peer[p] EXCEPT !.byzantine = TRUE], msg),
                chan[p])
    /\ nAsync' = nAsync + 1
    /\ UNCHANGED <<cfg, ltx, applied, down, now, ev>>

\* the flood traffic runs one way, from the initiator to the acceptor
Flooder == "A"

FlowNext ==
    \/ \E p \in Peers :
        \/ ConnectOk(p)
        \/ FlowDeliver(p)
        \/ RunPosted(p)
    \/ SendFlood(Flooder)
    \/ Overrun(Flooder)

SpecFlow == FlowInit /\ [][FlowNext]_vars

(* ------------------ one session and its recurring timer ---------------- *)

\* the session whose timer runs
Timed == "A"

\* the contexts of a call at the time of node p
At(p) ==
    [actionType |-> NORMAL_ACTION, overloaded |-> FALSE, now |-> now[p]]

\* the session right after construction in CONNECTED, after a HELLO, and
\* after the handshake with flow control started
TimedSessions ==
    LET s == [NewPeer(RoleOf(Timed), 1) EXCEPT !.connectPending = FALSE]
    IN  {[s EXCEPT !.mState = CONNECTED], [s EXCEPT !.mState = GOT_HELLO],
         startFlowControl([s EXCEPT !.mState = GOT_AUTH],
                          [actionType |-> NORMAL_ACTION,
                           overloaded |-> FALSE, now |-> 0],
                          TRUE)}

TimerInit ==
    /\ \E s \in TimedSessions :
          peer = [p \in Peers |->
                    IF p = Timed THEN s ELSE NewPeer(RoleOf(p), 2)]
    /\ chan = [p \in Peers |-> <<>>]
    /\ cfg = [p \in Peers |-> NodeCfg(IF p = "A" THEN 1 ELSE 2)]
    /\ down = [p \in Peers |-> FALSE]
    /\ nAsync = 0
    /\ ltx = NoLedger
    /\ applied = NoOperation
    /\ now = [p \in Peers |-> 0]
    /\ ev = [peer |-> Timed, op |-> "init", am |-> NoFrame,
             env |-> EnvDefault, down |-> FALSE,
             pre |-> Summary(NewPeer(RoleOf("A"), 1))]

\* the timed session becomes s2 by a call of op; what it wrote was handed
\* to the transport now
TimedCall(op, msg, s2) ==
    /\ peer[Timed].mState # CLOSING
    /\ peer' = [peer EXCEPT ![Timed] =
                   IF Len(s2.written) > Len(peer[Timed].written)
                   THEN [s2 EXCEPT !.mEnqueueTimeOfLastWrite = now[Timed]]
                   ELSE s2]
    /\ ev' = Event(Timed, op, [NoFrame EXCEPT !.message = msg], EnvDefault)
    /\ UNCHANGED <<chan, cfg, ltx, applied, down, nAsync, now>>

TimerPending ==
    /\ peer[Timed].mRecurringTimer
    /\ now[Timed] >= peer[Timed].mRecurringTimerExpiry

\* the clock advances to the next expiry of the timer
Tick ==
    /\ now[Timed] < MaxNow
    /\ peer[Timed].mState # CLOSING
    /\ ~TimerPending
    /\ now' = [p \in Peers |-> now[p] + RECURRENT_TIMER_PERIOD]
    /\ ev' = Event(Timed, "tick", NoFrame, EnvDefault)
    /\ UNCHANGED <<peer, chan, cfg, ltx, applied, down, nAsync>>

\* the recurring timer expires without error
TimerExpired ==
    /\ TimerPending
    /\ TimedCall("recurrentTimerExpired", HcnetMessage("NONE"),
                 recurrentTimerExpired(
                     peer[Timed], At(Timed), down[Timed],
                     timeouts(peer[Timed], cfg[Timed], now[Timed])))

\* the transport has read bytes of the peer
ReceivedBytes ==
    /\ peer[Timed].mLastRead # now[Timed]
    /\ TimedCall("receivedBytes", HcnetMessage("NONE"),
                 receivedBytes(peer[Timed], down[Timed], now[Timed]))

\* the transport has queued a message of the session for writing
Enqueued ==
    /\ peer[Timed].mEnqueueTimeOfLastWrite # now[Timed]
    /\ TimedCall("enqueue", HcnetMessage("NONE"),
                 [peer[Timed] EXCEPT
                     !.mEnqueueTimeOfLastWrite = now[Timed]])

\* the transport has written a queued message to the socket
Wrote ==
    /\ peer[Timed].mLastWrite # now[Timed]
    /\ TimedCall("wrote", HcnetMessage("NONE"),
                 [peer[Timed] EXCEPT !.mLastWrite = now[Timed]])

\* the peer grants credit
Granted ==
    /\ isAuthenticated(peer[Timed])
    /\ peer[Timed].granted < MaxGrant
    /\ peer[Timed].mOutboundCapacityTimestamp # <<now[Timed]>>
    /\ LET msg == [HcnetMessage("SEND_MORE_EXTENDED") EXCEPT
                      !.num = 1, !.numBytes = 1]
       IN  TimedCall("recvSendMore", msg,
                     recvSendMore(peer[Timed], At(Timed), msg))

TimerNext ==
    \/ Tick
    \/ TimerExpired
    \/ ReceivedBytes
    \/ Enqueued
    \/ Wrote
    \/ Granted

SpecTimer == TimerInit /\ [][TimerNext]_vars

(* ------------ one authenticated session and its application ---------- *)

\* the session the application and the remote node call
Served == "A"

Hashes == 1..MaxHash

\* the hash lists of the adverts and demands of the remote node
HashLists == {<<1>>, [i \in 1..(MaxHash - 1) |-> i + 1]}

\* a session runs the action it posted, if any
Ran(d, c) ==
    IF d.posted = <<>>
    THEN d
    ELSE runPosted(d, c, [actionType |-> Head(d.posted).type,
                          overloaded |-> FALSE, now |-> 0],
                   EnvDefault, FALSE, Head(d.posted))

\* a session receives frame f and runs the action it posted, if any
Handled(s, c, f) ==
    CHOOSE r \in {Ran(d, c) :
                     d \in {recvAuthenticatedMessage(
                                s, c, [actionType |-> NORMAL_ACTION,
                                       overloaded |-> FALSE, now |-> 0],
                                EnvDefault, FALSE, f)}} : TRUE

\* both sessions after an undisturbed handshake of two compatible nodes,
\* when each has handled the initial grant and the GET_SCP_STATE of the
\* other
AppInit ==
    \E a1 \in {connectHandler([NewPeer(WE_CALLED_REMOTE, 1) EXCEPT
                                  !.connectPending = FALSE],
                              NodeCfg(1),
                              [actionType |-> NORMAL_ACTION,
                               overloaded |-> FALSE, now |-> 0], FALSE)} :
    \E b1 \in {Handled(NewPeer(REMOTE_CALLED_US, 2), NodeCfg(2),
                       a1.written[1].am)} :
    \E a2 \in {Handled(a1, NodeCfg(1), b1.written[1].am)} :
    \E b2 \in {Handled(b1, NodeCfg(2), a2.written[2].am)} :
    \E a3 \in {Handled(a2, NodeCfg(1), b2.written[2].am)} :
    \E a4 \in {Handled(a3, NodeCfg(1), b2.written[3].am)} :
    \E a5 \in {Handled(a4, NodeCfg(1), b2.written[4].am)} :
    \E b3 \in {Handled(b2, NodeCfg(2), a3.written[3].am)} :
    \E b4 \in {Handled(b3, NodeCfg(2), a3.written[4].am)} :
        /\ peer = [p \in Peers |-> IF p = "A" THEN a5 ELSE b4]
        /\ chan = [p \in Peers |-> <<>>]
        /\ cfg = [p \in Peers |-> NodeCfg(IF p = "A" THEN 1 ELSE 2)]
        /\ down = [p \in Peers |-> FALSE]
        /\ nAsync = 0
        /\ ltx = NoLedger
        /\ applied = NoOperation
        /\ now = [p \in Peers |-> 0]
        /\ ev = [peer |-> Served, op |-> "init", am |-> NoFrame,
                 env |-> EnvDefault, down |-> FALSE,
                 pre |-> Summary(a5)]

\* the served session becomes s2 by a call of op with msg in context ctx
AppCall(op, msg, ctx, s2) ==
    /\ Becomes(Served, s2, chan[Served])
    /\ ev' = Event(Served, op, [NoFrame EXCEPT !.message = msg],
                   [EnvDefault EXCEPT !.actionType = ctx.actionType,
                                      !.overloaded = ctx.overloaded])
    /\ UNCHANGED <<cfg, ltx, applied, down, now>>

\* the contexts a call can run in
Contexts ==
    {[actionType |-> a, overloaded |-> o, now |-> 0] :
        a \in {NORMAL_ACTION, DROPPABLE_ACTION}, o \in BOOLEAN}

\* the remote node advertises or demands transactions
RemoteSends(types) ==
    /\ FloodWritten(peer[Other(Served)]) < MaxRemote
    /\ \E t \in types, hs \in HashLists :
        LET msg == [HcnetMessage(t) EXCEPT !.txHashes = hs]
        IN  /\ Becomes(Other(Served),
                       sendAuthenticatedMessage(peer[Other(Served)], msg),
                       chan[Other(Served)])
            /\ ev' = Event(Other(Served), "sendAuthenticatedMessage",
                           [NoFrame EXCEPT !.message = msg], EnvDefault)
    /\ UNCHANGED <<cfg, ltx, applied, down, nAsync, now>>

\* the served session reads the next frame of the remote node
AppDeliver == DeliverWith(Served, {EnvDefault})

\* the main thread runs the oldest task the session posted, with the
\* ledger synced
RunTaskIn(overloads) ==
    /\ peer[Served].posted # <<>>
    /\ LET task == Head(peer[Served].posted)
       IN  \E env \in {e \in EnvFor(task.msg.type) : e.isSynced},
              ov \in overloads :
            /\ Becomes(Served,
                       runPosted(peer[Served], cfg[Served],
                                 [actionType |-> task.type, overloaded |-> ov,
                                  now |-> now[Served]],
                                 env, down[Served], task),
                       chan[Served])
            /\ ev' = Event(Served, "recvRawMessage",
                           [NoFrame EXCEPT !.message = task.msg],
                           [env EXCEPT !.actionType = task.type,
                                       !.overloaded = ov])
    /\ UNCHANGED <<cfg, ltx, applied, down, nAsync, now>>

\* the transaction pool tells the session a hash to advertise
QueueTxHash ==
    /\ Len(peer[Served].accepted) < MaxQueued
    /\ \E h \in 1..2 :
        AppCall("queueTxHashToAdvertise",
                [HcnetMessage("NONE") EXCEPT !.txHashes = <<h>>],
                At(Served),
                queueTxHashToAdvertise(peer[Served], down[Served], h))
    /\ UNCHANGED nAsync

AdvertTimerExpired ==
    /\ peer[Served].mAdvertTimer
    /\ AppCall("advertTimerExpired", HcnetMessage("NONE"), At(Served),
               advertTimerExpired(peer[Served]))
    /\ UNCHANGED nAsync

\* the main thread runs the oldest sendMessage the session posted
RunPostedSend ==
    /\ peer[Served].postedSend # <<>>
    /\ \E ov \in BOOLEAN :
        LET ctx == [At(Served) EXCEPT !.overloaded = ov]
            msg == Head(peer[Served].postedSend)
        IN  AppCall("sendMessage", msg, ctx,
                    sendMessage([peer[Served] EXCEPT !.postedSend = Tail(@)],
                                ctx, msg))
    /\ UNCHANGED nAsync

\* a collaborator sends a message through the session
Send ==
    /\ nAsync < MaxSent
    /\ \E ctx \in Contexts, t \in {"GET_SCP_STATE", "TRANSACTION"} :
        AppCall("sendMessage", HcnetMessage(t), ctx,
                sendMessage(peer[Served], ctx, HcnetMessage(t)))
    /\ nAsync' = nAsync + 1

\* the ledger manager tells the session the ledger that closed
ClearBelow ==
    /\ peer[Served].mAdvertHistory # {}
    /\ \E ledgerSeq \in 1..(MaxLedger + 1) :
        AppCall("clearBelow", [HcnetMessage("NONE") EXCEPT !.num = ledgerSeq],
                At(Served), clearBelow(peer[Served], ledgerSeq))
    /\ UNCHANGED nAsync

\* the overlay manager or the transport drops the session, whatever its
\* state
DropCall ==
    /\ \E mode \in {FLUSH_WRITE_QUEUE, IGNORE_WRITE_QUEUE} :
        AppCall("drop", HcnetMessage("NONE"), At(Served),
                drop(peer[Served], "dropped by overlay manager",
                     WE_DROPPED_REMOTE, mode))
    /\ UNCHANGED nAsync

\* the transport of a dropped session has written its queue and shuts down
ShutdownCall ==
    /\ peer[Served].mState = CLOSING
    /\ AppCall("shutdown", HcnetMessage("NONE"), At(Served),
               shutdown(peer[Served]))
    /\ UNCHANGED nAsync

StartRecurrentTimer ==
    /\ ~peer[Served].mRecurringTimer
    /\ AppCall("startRecurrentTimer", HcnetMessage("NONE"), At(Served),
               startRecurrentTimer(peer[Served], At(Served), down[Served]))
    /\ UNCHANGED nAsync

StartExecutionDelayedTimer ==
    /\ ~peer[Served].mDelayedExecutionTimer
    /\ AppCall("startExecutionDelayedTimer", HcnetMessage("NONE"),
               At(Served), startExecutionDelayedTimer(peer[Served]))
    /\ UNCHANGED nAsync

\* the wait of mDelayedExecutionTimer ends without error: onSuccess runs
DelayedTimerExpired ==
    /\ peer[Served].mDelayedExecutionTimer
    /\ AppCall("onSuccess", HcnetMessage("NONE"), At(Served),
               [peer[Served] EXCEPT !.mDelayedExecutionTimer = FALSE])
    /\ UNCHANGED nAsync

\* the transport stops reading when the session cannot read
startRead(s) ==
    IF canRead(s) THEN s ELSE [s EXCEPT !.mIsPeerThrottled = TRUE]

\* the served session, not throttled, reads the next frame of the remote
\* node; the transport then goes on reading or stops
ThrottledRead ==
    /\ chan[Served] # <<>>
    /\ peer[Served].mState \notin {CONNECTING, CLOSING}
    /\ ~peer[Served].mIsPeerThrottled
    /\ canRead(peer[Served])
    /\ \E s2 \in {recvAuthenticatedMessage(
                       peer[Served], cfg[Served], At(Served), EnvDefault,
                       down[Served], Head(chan[Served]))} :
           Becomes(Served, startRead(s2), Tail(chan[Served]))
    /\ ev' = Event(Served, "recvMessage", Head(chan[Served]), EnvDefault)
    /\ UNCHANGED <<cfg, ltx, applied, down, nAsync, now>>

\* the remote node writes a message that is not flow-controlled
RemoteAsks ==
    /\ Len(peer[Other(Served)].written) < 4 + MaxReads
    /\ LET msg == HcnetMessage("GET_SCP_STATE")
       IN  /\ Becomes(Other(Served),
                      sendAuthenticatedMessage(peer[Other(Served)], msg),
                      chan[Other(Served)])
           /\ ev' = Event(Other(Served), "sendAuthenticatedMessage",
                          [NoFrame EXCEPT !.message = msg], EnvDefault)
    /\ UNCHANGED <<cfg, ltx, applied, down, nAsync, now>>

RemoteAdvertises == RemoteSends({"FLOOD_ADVERT"})

RemoteDemands == RemoteSends({"FLOOD_DEMAND"})

\* a posted task runs while the write queue is not overloaded
RunAdvert == RunTaskIn({FALSE})

\* a posted task runs, the write queue overloaded or not
RunDemand == RunTaskIn(BOOLEAN)

\* adverts of the remote node and the history of the adverts
AdvertNext ==
    \/ AppDeliver
    \/ RunAdvert
    \/ RemoteAdvertises
    \/ ClearBelow

SpecAdvert == AppInit /\ [][AdvertNext]_vars

\* demands of the remote node and messages of the collaborators
DemandNext ==
    \/ AppDeliver
    \/ RunDemand
    \/ RemoteDemands
    \/ Send

SpecDemand == AppInit /\ [][DemandNext]_vars

\* messages of the remote node that a session reads faster than it
\* handles them
ThrottleNext ==
    \/ ThrottledRead
    \/ RunAdvert
    \/ RemoteAsks
    \/ RemoteAdvertises
    \/ OverlayShutdown(Served)

SpecThrottle == AppInit /\ [][ThrottleNext]_vars

\* the batch of adverts, the timers and the end of the session
LifeNext ==
    \/ QueueTxHash
    \/ AdvertTimerExpired
    \/ RunPostedSend
    \/ DropCall
    \/ ShutdownCall
    \/ StartRecurrentTimer
    \/ TimerOk(Served)
    \/ StartExecutionDelayedTimer
    \/ DelayedTimerExpired

SpecLife == AppInit /\ [][LifeNext]_vars

\* the event loop runs every wait that ended and every posted task
SpecLifeFair ==
    /\ AppInit
    /\ [][LifeNext]_vars
    /\ WF_vars(AdvertTimerExpired)
    /\ WF_vars(RunPostedSend)

(* ------------- one FlowControlCapacity object, driven directly --------- *)

\* Session "A" as constructed lends its message axis, session "B" with
\* flow control started on both axes lends its byte axis.  The object of
\* ev.peer is called with every message and grant, in every order; the
\* session's posted queue holds the messages whose lockLocalCapacity
\* returned true and which have not been released.
CapacityOf(s) ==
    IF s.mRole = WE_CALLED_REMOTE THEN s.mFlowControlCapacity
                                  ELSE s.mFlowControlBytesCapacity[1]

WithCapacity(s, fc) ==
    IF s.mRole = WE_CALLED_REMOTE
    THEN [s EXCEPT !.mFlowControlCapacity = fc]
    ELSE [s EXCEPT !.mFlowControlBytesCapacity = <<fc>>]

CapacityMessages ==
    {[HcnetMessage(t) EXCEPT !.body = b] :
        t \in {"TRANSACTION", "GET_PEERS"}, b \in 0..MaxBody}

CapacityGrants ==
    {[HcnetMessage(t) EXCEPT !.num = k, !.numBytes = k] :
        t \in {"SEND_MORE", "SEND_MORE_EXTENDED"}, k \in 0..MaxGrant}

CapacityInit ==
    /\ peer = [p \in Peers |->
                 IF p = "A"
                 THEN NewPeer(RoleOf(p), 1)
                 ELSE [NewPeer(RoleOf(p), 2) EXCEPT
                          !.mState = GOT_AUTH, !.fcStarted = TRUE,
                          !.fcBytes = TRUE,
                          !.mFlowControlBytesCapacity =
                              <<FlowControlByteCapacity>>]]
    /\ chan = [p \in Peers |-> <<>>]
    /\ cfg = [p \in Peers |-> NodeCfg(IF p = "A" THEN 1 ELSE 2)]
    /\ down = [p \in Peers |-> FALSE]
    /\ nAsync = 0
    /\ ltx = NoLedger
    /\ applied = NoOperation
    /\ now = [p \in Peers |-> 0]
    /\ \E p \in Peers :
          ev = [peer |-> p, op |-> "init", am |-> NoFrame, env |-> EnvDefault,
                down |-> FALSE, pre |-> Summary(NewPeer(RoleOf("A"), 1))]

\* the object of session p becomes fc and its messages in processing become
\* inFlight, by a call of op with msg
Called(p, op, msg, fc, inFlight) ==
    /\ ev.peer = p
    /\ ~CapacityOf(peer[p]).asserted
    /\ peer' = [peer EXCEPT ![p] =
                   [WithCapacity(@, fc) EXCEPT !.posted = inFlight]]
    /\ ev' = Event(p, op, [NoFrame EXCEPT !.message = msg], EnvDefault)
    /\ UNCHANGED <<chan, cfg, ltx, applied, down, nAsync, now>>

LockOutbound(p) ==
    \E msg \in CapacityMessages :
        Called(p, "lockOutboundCapacity", msg,
               lockOutboundCapacity(CapacityOf(peer[p]), msg),
               peer[p].posted)

ReleaseOutbound(p) ==
    \E msg \in CapacityGrants :
        /\ CapacityOf(peer[p]).mOutboundCapacity + MaxGrant <= MaxOutbound
        /\ Called(p, "releaseOutboundCapacity", msg,
                  releaseOutboundCapacity(CapacityOf(peer[p]), msg),
                  peer[p].posted)

LockLocal(p) ==
    \E msg \in CapacityMessages :
        /\ Len(peer[p].posted) < MaxInFlight
        /\ LET r == lockLocalCapacity(CapacityOf(peer[p]), msg)
           IN  Called(p, "lockLocalCapacity", msg, r.fc,
                      IF r.ok THEN Append(peer[p].posted, msg)
                              ELSE peer[p].posted)

\* the sequence q without its i-th element
Without(q, i) == SubSeq(q, 1, i - 1) \o SubSeq(q, i + 1, Len(q))

ReleaseLocal(p) ==
    \E i \in DOMAIN peer[p].posted :
        Called(p, "releaseLocalCapacity", peer[p].posted[i],
               releaseLocalCapacity(CapacityOf(peer[p]),
                                    peer[p].posted[i]).fc,
               Without(peer[p].posted, i))

TxSizeIncrease(p) ==
    \E increase \in 1..MaxIncrease :
        /\ CapacityOf(peer[p]).axis = "bytes"
        /\ CapacityOf(peer[p]).mCapacityLimits.mFloodCapacity + increase
               <= FLOW_CONTROL_BYTES_TOTAL + MaxIncrease
        /\ Called(p, "handleTxSizeIncrease", HcnetMessage("NONE"),
                  handleTxSizeIncrease(CapacityOf(peer[p]), increase),
                  peer[p].posted)

CapacityNext ==
    \E p \in Peers :
        \/ LockOutbound(p)
        \/ ReleaseOutbound(p)
        \/ LockLocal(p)
        \/ ReleaseLocal(p)
        \/ TxSizeIncrease(p)

SpecCapacity == CapacityInit /\ [][CapacityNext]_vars

(* ------------------------- authenticated frames ------------------------ *)

\* session p has just run recvMessage(AuthenticatedMessage const&) on the
\* frame ev.am, and the call did not return at shouldAbort()
Received(p) == ev.op = "recvMessage" /\ ev.peer = p /\ ~ev.down

\* ... and the frame was one the session authenticates
MustAuthenticate(p) ==
    /\ Received(p)
    /\ ev.pre.mState >= GOT_HELLO
    /\ ev.am.message.type # "ERROR_MSG"

SeqOk == ev.am.sequence = ev.pre.mRecvMacSeq

MacOk(p) ==
    hmacSha256Verify(ev.am.mac, peer[p].mRecvMacKey, ev.am.sequence,
                     ev.am.message)

\* the call passed the frame on to recvMessage(HcnetMessage const&)
Dispatched(p) == Len(peer[p].handled) = ev.pre.nHandled + 1

Last(q) == q[Len(q)]

\* the frames session s passed on after authenticating them
AuthHandled(s) ==
    SelectSeq(s.handled, LAMBDA h : h.st >= GOT_HELLO
                                    /\ h.am.message.type # "ERROR_MSG")

\* the frames session s wrote under a MAC
AuthWritten(s) ==
    SelectSeq(s.written,
              LAMBDA w : w.am.message.type \notin {"HELLO", "ERROR_MSG"})

\* C1: a message other than ERROR_MSG received in GOT_HELLO or GOT_AUTH is
\* passed on only if its sequence equals mRecvMacSeq as it was before the
\* increment and its MAC verifies; the n-th message passed on carries
\* sequence n, counting from 0; any other frame closes the session.
C1_InOrderOrFatal ==
    \A p \in Peers :
        /\ MustAuthenticate(p) /\ Dispatched(p) => SeqOk /\ MacOk(p)
        /\ MustAuthenticate(p) /\ ~(SeqOk /\ MacOk(p)) =>
               ~Dispatched(p) /\ peer[p].mState = CLOSING
        /\ LET H == AuthHandled(peer[p])
           IN  \A n \in 1..Len(H) : H[n].am.sequence = n - 1

\* a session that passed on three authenticated messages is sent the first
\* one again and closes
C1_Witness ==
    \E p \in Peers :
        /\ MustAuthenticate(p) /\ ~SeqOk /\ MacOk(p)
        /\ Len(AuthHandled(peer[p])) >= 3
        /\ peer[p].mState = CLOSING

\* C2: a frame with a wrong sequence or a MAC that does not verify makes
\* the receiver write one ERROR_MSG with code ERR_AUTH, drop with
\* IGNORE_WRITE_QUEUE (state CLOSING), advance mRecvMacSeq by exactly one
\* and pass nothing on.
C2_AuthFailure ==
    \A p \in Peers :
        MustAuthenticate(p) /\ ~(SeqOk /\ MacOk(p)) =>
            LET s == peer[p]
            IN  /\ Len(s.written) = ev.pre.nWritten + 1
                /\ Last(s.written).am.message.type = "ERROR_MSG"
                /\ Last(s.written).am.message.code = "ERR_AUTH"
                /\ s.mState = CLOSING
                /\ s.mDropMode = IGNORE_WRITE_QUEUE
                /\ s.mDropDirection = WE_DROPPED_REMOTE
                /\ s.mRecvMacSeq = ev.pre.mRecvMacSeq + 1
                /\ Len(s.handled) = ev.pre.nHandled

\* a frame with the expected sequence and a changed MAC was received by an
\* authenticated session
C2_Witness ==
    \E p \in Peers :
        /\ MustAuthenticate(p) /\ SeqOk /\ ~MacOk(p)
        /\ ev.pre.mState = GOT_AUTH
        /\ ev.pre.mRecvMacSeq >= 1

Types(s) == {s.written[i].am.message.type : i \in 1..Len(s.written)}

Count(s, t) ==
    Cardinality({i \in 1..Len(s.written) : s.written[i].am.message.type = t})

DiscardedOutOfSync(p) ==
    /\ ev'.peer = p /\ ev'.op = "recvMessage"
    /\ Len(peer'[p].handled) = Len(peer[p].handled) + 1
    /\ ignoreIfOutOfSync(ev'.am.message.type)
    /\ ~ev'.env.isSynced

GrantWritten(s) ==
    (IF s.fcBytes THEN "SEND_MORE_EXTENDED" ELSE "SEND_MORE") \in Types(s)

BothAuthenticated ==
    \A p \in Peers :
        /\ peer[p].mState = GOT_AUTH
        /\ peer[p].fcStarted
        /\ GrantWritten(peer[p])

\* C6: two compatible nodes on a reliable in-order channel, accepted by
\* both overlay managers: eventually both sessions are in GOT_AUTH, each
\* has started flow control and written its initial grant.
C6_HappyHandshake == <>BothAuthenticated

\* both sessions are authenticated and each has read the other's grant
C6_Witness ==
    /\ BothAuthenticated
    /\ \A p \in Peers : \E i \in 1..Len(peer[p].handled) :
           peer[p].handled[i].am.message.type
               \in {"SEND_MORE", "SEND_MORE_EXTENDED"}

HandledTypes(s, st) ==
    {s.handled[i].am.message.type :
        i \in {j \in 1..Len(s.handled) : s.handled[j].st = st}}

\* C7: the initiator writes HELLO when the connect completes; the
\* responder writes HELLO only once it has been handed a HELLO; the
\* initiator writes AUTH only in GOT_HELLO, after the responder's HELLO;
\* the responder writes AUTH only once it has been handed an AUTH in
\* GOT_HELLO; each session writes HELLO at most once, AUTH at most once,
\* and HELLO before AUTH.
C7_HandshakeOrder ==
    \A p \in Peers :
        LET s == peer[p]
            W == s.written
        IN  /\ Count(s, "HELLO") <= 1
            /\ Count(s, "AUTH") <= 1
            /\ \A i \in 1..Len(W) : W[i].am.message.type = "HELLO" =>
                   /\ \A j \in 1..(i - 1) :
                          W[j].am.message.type # "AUTH"
                   /\ IF s.mRole = WE_CALLED_REMOTE
                      THEN i = 1 /\ W[i].st = CONNECTED /\ ~s.connectPending
                      ELSE /\ W[i].st = GOT_HELLO
                           /\ "HELLO" \in HandledTypes(s, CONNECTED)
            /\ \A i \in 1..Len(W) : W[i].am.message.type = "AUTH" =>
                   /\ \E j \in 1..(i - 1) :
                          W[j].am.message.type = "HELLO"
                   /\ "HELLO" \in HandledTypes(s, CONNECTED)
                   /\ IF s.mRole = WE_CALLED_REMOTE
                      THEN W[i].st = GOT_HELLO
                      ELSE /\ W[i].st = GOT_AUTH
                           /\ "AUTH" \in HandledTypes(s, GOT_HELLO)

\* the four handshake messages have been written and read
C7_Witness ==
    \A p \in Peers :
        /\ Count(peer[p], "HELLO") = 1
        /\ Count(peer[p], "AUTH") = 1
        /\ "AUTH" \in HandledTypes(peer[p], GOT_HELLO)

(* -------------------------- handshake failures ------------------------ *)

\* session p, not yet in GOT_HELLO, has just been handed the HELLO ev.am
HelloReceived(p) ==
    /\ Received(p)
    /\ ev.am.message.type = "HELLO"
    /\ ev.pre.mState = CONNECTED

CertOk ==
    verifyRemoteAuthCert(ev.am.message.hello.peerID, ev.am.message.hello.cert)

Banned(p) == ev.am.message.hello.peerID \in cfg[p].banned

WrongNetwork(p) == ev.am.message.hello.networkID # cfg[p].NETWORK_ID

VersionMismatch(p) ==
    LET elo == ev.am.message.hello
    IN  \/ elo.overlayMinVersion > elo.overlayVersion
        \/ elo.overlayVersion < cfg[p].OVERLAY_PROTOCOL_MIN_VERSION
        \/ elo.overlayMinVersion > cfg[p].OVERLAY_PROTOCOL_VERSION

SelfConnect(p) == ev.am.message.hello.peerID = cfg[p].NODE_ID

\* the call wrote an ERROR_MSG with one of the codes as its last frame and
\* left the session CLOSING
ErrorThenDrop(p, codes) ==
    /\ Len(peer[p].written) > ev.pre.nWritten
    /\ Last(peer[p].written).am.message.type = "ERROR_MSG"
    /\ Last(peer[p].written).am.message.code \in codes
    /\ peer[p].mState = CLOSING

\* the call wrote nothing and left the session CLOSING
SilentDrop(p, reason) ==
    /\ Len(peer[p].written) = ev.pre.nWritten
    /\ peer[p].mState = CLOSING
    /\ peer[p].mDropReason = reason
    /\ peer[p].mDropMode = IGNORE_WRITE_QUEUE

\* C8 as stated: a bad certificate, a wrong network, an overlay version
\* mismatch or a self-connect found on a received HELLO, in either role,
\* makes the session send ERROR_MSG ERR_CONF and drop with
\* FLUSH_WRITE_QUEUE (the sender not banned, the remote address known).
C8_HelloFailureErrConfFlush ==
    \A p \in Peers :
        /\ HelloReceived(p) /\ ~Banned(p) /\ ~ev.env.ipEmpty
        /\ ~CertOk \/ WrongNetwork(p) \/ VersionMismatch(p) \/ SelfConnect(p)
        => /\ ErrorThenDrop(p, {"ERR_CONF"})
           /\ peer[p].mDropMode = FLUSH_WRITE_QUEUE

\* C8: a certificate that does not verify makes the session drop with
\* IGNORE_WRITE_QUEUE without any ERROR_MSG.  With a certificate that
\* verifies, a sender that is not banned and a remote address that is
\* known, a wrong network, an overlay version mismatch or a self-connect
\* makes the session send ERROR_MSG ERR_CONF and drop, with
\* FLUSH_WRITE_QUEUE in the responder role and IGNORE_WRITE_QUEUE in the
\* initiator role.
C8_HelloFailure ==
    \A p \in Peers :
        HelloReceived(p) =>
            /\ ~CertOk => SilentDrop(p, "failed to verify auth cert")
            /\ /\ CertOk /\ ~Banned(p) /\ ~ev.env.ipEmpty
               /\ WrongNetwork(p) \/ VersionMismatch(p) \/ SelfConnect(p)
               => /\ ErrorThenDrop(p, {"ERR_CONF"})
                  /\ peer[p].mDropMode =
                         IF peer[p].mRole = REMOTE_CALLED_US
                         THEN FLUSH_WRITE_QUEUE ELSE IGNORE_WRITE_QUEUE

\* the initiator found the responder's HELLO to be of another network
C8_Witness ==
    /\ HelloReceived("A") /\ CertOk /\ WrongNetwork("A")
    /\ ErrorThenDrop("A", {"ERR_CONF"})
    /\ peer["A"].mDropMode = IGNORE_WRITE_QUEUE

\* the call wrote HELLO, then ERROR_MSG ERR_CONF "connecting to self", and
\* dropped with FLUSH_WRITE_QUEUE
SelfConnectReply(p) ==
    LET W == peer[p].written
    IN  /\ Len(W) = ev.pre.nWritten + 2
        /\ W[Len(W) - 1].am.message.type = "HELLO"
        /\ W[Len(W)].am.message.type = "ERROR_MSG"
        /\ W[Len(W)].am.message.code = "ERR_CONF"
        /\ W[Len(W)].am.message.msg = "connecting to self"
        /\ peer[p].mState = CLOSING
        /\ peer[p].mDropMode = FLUSH_WRITE_QUEUE
        /\ "AUTH" \notin Types(peer[p])

\* C9 as stated: a responder handed a HELLO with a valid certificate and
\* its own identity sends HELLO, then ERROR_MSG ERR_CONF "connecting to
\* self", drops with FLUSH_WRITE_QUEUE and sends no AUTH (the identity not
\* banned, the remote address known).
C9_SelfConnectAlways ==
    \A p \in Peers :
        /\ HelloReceived(p) /\ peer[p].mRole = REMOTE_CALLED_US
        /\ CertOk /\ SelfConnect(p)
        /\ ~Banned(p) /\ ~ev.env.ipEmpty
        => SelfConnectReply(p)

\* C9: a responder handed a HELLO with a valid certificate and its own
\* identity, which it does not ban, from an address it can determine and
\* with an overlay version range that overlaps its own, sends HELLO, then
\* ERROR_MSG ERR_CONF "connecting to self", and drops with
\* FLUSH_WRITE_QUEUE; a session dropped for this reason has sent no AUTH
\* and is CLOSING.
C9_SelfConnect ==
    \A p \in Peers :
        /\ /\ HelloReceived(p) /\ peer[p].mRole = REMOTE_CALLED_US
           /\ CertOk /\ SelfConnect(p)
           /\ ~Banned(p) /\ ~ev.env.ipEmpty /\ ~VersionMismatch(p)
           => SelfConnectReply(p)
        /\ peer[p].mDropReason = "connecting to self" =>
               /\ peer[p].mState = CLOSING
               /\ "AUTH" \notin Types(peer[p])

\* the responder answered its own node's HELLO
C9_Witness ==
    /\ HelloReceived("B") /\ CertOk /\ SelfConnect("B")
    /\ peer["B"].mDropReason = "connecting to self"
    /\ Len(peer["B"].written) = 2

\* session p in GOT_HELLO has just been handed an AUTH that authenticates
AuthReceived(p) ==
    /\ MustAuthenticate(p)
    /\ ev.am.message.type = "AUTH"
    /\ ev.pre.mState = GOT_HELLO
    /\ SeqOk /\ MacOk(p)

\* the remote identity is already an authenticated or a pending peer
Duplicate(p) ==
    /\ HelloReceived(p) /\ CertOk /\ ~Banned(p) /\ ~ev.env.ipEmpty
    /\ ev.env.authDup \/ ev.env.pendDup

\* C10 as stated: a banned identity, an identity that is already
\* connected, or a rejection by the overlay manager makes the session send
\* ERROR_MSG ERR_CONF or ERR_LOAD before it drops.
C10_PolicyFailureSendsError ==
    \A p \in Peers :
        \/ HelloReceived(p) /\ CertOk /\ Banned(p)
        \/ Duplicate(p)
        \/ AuthReceived(p) /\ ~ev.env.accept
        => ErrorThenDrop(p, {"ERR_CONF", "ERR_LOAD"})

\* C10: a banned identity makes the session drop with IGNORE_WRITE_QUEUE
\* without any ERROR_MSG; an identity that is already connected makes it
\* send ERROR_MSG ERR_CONF and drop; a rejection by the overlay manager
\* makes it send ERROR_MSG ERR_LOAD and drop with FLUSH_WRITE_QUEUE.
C10_PolicyFailure ==
    \A p \in Peers :
        /\ HelloReceived(p) /\ CertOk /\ Banned(p) =>
               SilentDrop(p, "node is banned")
        /\ Duplicate(p) => ErrorThenDrop(p, {"ERR_CONF"})
        /\ AuthReceived(p) /\ ~ev.env.accept =>
               /\ ErrorThenDrop(p, {"ERR_LOAD"})
               /\ Last(peer[p].written).am.message.msg = "peer rejected"
               /\ peer[p].mDropMode = FLUSH_WRITE_QUEUE

\* the responder's overlay manager rejected the authenticated initiator
C10_Witness ==
    /\ AuthReceived("B") /\ ~ev.env.accept
    /\ ErrorThenDrop("B", {"ERR_LOAD"})
    /\ "AUTH" \in Types(peer["B"])

(* ------------------------------- credit ------------------------------- *)

\* the object under direct test, before and after the step
Capacity == CapacityOf(peer[ev.peer])

CapacityAfter == CapacityOf(peer'[ev.peer])

\* the cost of a message on the axis of fc: 1 for messages, the encoded
\* size for bytes
Cost(fc, msg) == IF fc.axis = "messages" THEN 1 ELSE 1 + msg.body

\* C11: the outbound capacity of an axis is never negative, whatever
\* grants and messages the object is called with; lockOutboundCapacity
\* lowers it by the cost of the message when the message is a flood message
\* and the capacity is at least the cost, and leaves it alone for any other
\* message; nothing else lowers it.
C11_OutboundNotOverdrawn ==
    /\ [](Capacity.mOutboundCapacity >= 0)
    /\ [][LET msg == ev'.am.message
              before == Capacity.mOutboundCapacity
              after == CapacityAfter.mOutboundCapacity
          IN  /\ ev'.op = "lockOutboundCapacity" =>
                     IF isFloodMessage(msg)
                     THEN IF before >= Cost(Capacity, msg)
                          THEN after = before - Cost(Capacity, msg)
                          ELSE after = before /\ CapacityAfter.asserted
                     ELSE after = before /\ ~CapacityAfter.asserted
              /\ after < before => ev'.op = "lockOutboundCapacity"]_vars

\* a flood message of two bytes has taken the last two bytes of credit
C11_Witness ==
    /\ ev.op = "lockOutboundCapacity"
    /\ Capacity.axis = "bytes"
    /\ isFloodMessage(ev.am.message) /\ ev.am.message.body = 1
    /\ ~Capacity.asserted
    /\ Capacity.mOutboundCapacity = 0

\* C13: the flood capacity of an inbound window is at most the flood
\* ceiling; the message axis tracks a total capacity, which is at most
\* its ceiling; the byte axis tracks none; after every sequence of
\* lockLocalCapacity, releaseLocalCapacity of a message locked before and
\* handleTxSizeIncrease.
C13_CapacityCeilings ==
    /\ Capacity.mCapacity.mFloodCapacity
           <= getCapacityLimits(Capacity).mFloodCapacity
    /\ Capacity.mCapacity.mFloodCapacity >= 0
    /\ IF Capacity.axis = "messages"
       THEN /\ Len(Capacity.mCapacity.mTotalCapacity) = 1
            /\ Capacity.mCapacity.mTotalCapacity[1] <= PEER_READING_CAPACITY
            /\ Capacity.mCapacity.mTotalCapacity[1] >= 0
       ELSE Capacity.mCapacity.mTotalCapacity = nullopt

\* the byte ceiling was raised while a flood message was in processing, and
\* the message has been released: the flood capacity is at the new ceiling
C13_Witness ==
    /\ ev.op = "releaseLocalCapacity"
    /\ isFloodMessage(ev.am.message)
    /\ Capacity.axis = "bytes"
    /\ Capacity.mCapacityLimits.mFloodCapacity > FLOW_CONTROL_BYTES_TOTAL
    /\ Capacity.mCapacity.mFloodCapacity =
           Capacity.mCapacityLimits.mFloodCapacity
    /\ ~Capacity.asserted

FloodRoom(s, msg) ==
    /\ s.mFlowControlCapacity.mCapacity.mFloodCapacity >=
           getMsgResourceCount(s.mFlowControlCapacity, msg)
    /\ s.mFlowControlBytesCapacity # nullopt =>
           s.mFlowControlBytesCapacity[1].mCapacity.mFloodCapacity >=
               getMsgResourceCount(s.mFlowControlBytesCapacity[1], msg)

\* session p has, in this step, passed the frame of ev' on to
\* recvMessage(HcnetMessage const&)
PassedOn(p) ==
    /\ ev'.peer = p /\ ev'.op = "recvMessage"
    /\ Len(peer'[p].handled) = Len(peer[p].handled) + 1

OverranReason == "unexpected flood message, peer at capacity"

\* C14: a flood message that arrives when the local flood capacity is
\* smaller than its cost drops the connection with reason "unexpected flood
\* message, peer at capacity", WE_DROPPED_REMOTE, IGNORE_WRITE_QUEUE, and
\* recvRawMessage is never entered for it.
C14_OverrunDrops ==
    /\ [][\A p \in Peers :
            (/\ PassedOn(p)
             /\ isFloodMessage(ev'.am.message)
             /\ ~FloodRoom(peer[p], ev'.am.message))
            => /\ peer'[p].mState = CLOSING
               /\ peer'[p].mDropReason = OverranReason
               /\ peer'[p].mDropDirection = WE_DROPPED_REMOTE
               /\ peer'[p].mDropMode = IGNORE_WRITE_QUEUE
               /\ peer'[p].delivered = peer[p].delivered
               /\ peer'[p].recorded = peer[p].recorded]_vars
    /\ [](\A p \in Peers :
            peer[p].mDropReason = OverranReason =>
                /\ peer[p].mState = CLOSING
                /\ \A i \in 1..Len(peer[p].delivered) :
                       peer[p].delivered[i].n # Len(peer[p].handled))

\* the acceptor has just dropped the session on a flood message beyond the
\* grant; the task posted for the message is still waiting
C14_Witness ==
    /\ ev.op = "recvMessage"
    /\ isFloodMessage(ev.am.message)
    /\ peer[ev.peer].mDropReason = OverranReason
    /\ peer[ev.peer].posted # <<>>
    /\ peer[ev.peer].posted[Len(peer[ev.peer].posted)].n =
           Len(peer[ev.peer].handled)
    /\ peer[Other(ev.peer)].byzantine

\* session p has, in this step, received a flood message for processing
\* while its flood capacity on the message axis was exactly 1
LastFloodCredit(p) ==
    /\ PassedOn(p)
    /\ isFloodMessage(ev'.am.message)
    /\ ev'.env.isSynced
    /\ peer[p].mFlowControlCapacity.mCapacity.mFloodCapacity = 1
    /\ FloodRoom(peer[p], ev'.am.message)

\* C15 as stated: receiving a flood message at flood capacity 1 takes the
\* flood capacity to 0 and makes canRead() false.
C15_Original ==
    [][\A p \in Peers :
          LastFloodCredit(p) =>
              /\ peer'[p].mFlowControlCapacity.mCapacity.mFloodCapacity = 0
              /\ ~canRead(peer'[p])]_vars

\* C15, amended: receiving a flood message at flood capacity 1 takes the
\* flood capacity to 0; canRead() is false afterwards exactly if the
\* messages in processing use up the total capacity PEER_READING_CAPACITY.
C15_FloodCapacityExhausted ==
    [][\A p \in Peers :
          LastFloodCredit(p) =>
              /\ peer'[p].mFlowControlCapacity.mCapacity.mFloodCapacity = 0
              /\ canRead(peer'[p]) <=>
                     Len(peer'[p].posted) < PEER_READING_CAPACITY]_vars

\* the last flood credit is taken and the session still reads
C15_Witness ==
    /\ ev.op = "recvMessage"
    /\ isFloodMessage(ev.am.message)
    /\ ev.env.isSynced
    /\ peer[ev.peer].mState = GOT_AUTH
    /\ peer[ev.peer].mFlowControlCapacity.mCapacity.mFloodCapacity = 0
    /\ peer[ev.peer].posted[Len(peer[ev.peer].posted)].n =
           Len(peer[ev.peer].handled)
    /\ canRead(peer[ev.peer])

(* ------------------------------- dispatch ------------------------------ *)

HandshakeTypes == {"HELLO", "AUTH"}

Pending(s, i) == \E k \in 1..Len(s.posted) : s.posted[k].n = i

\* session p has, in this step, finished with its i-th message: it was
\* discarded on arrival, or its posted task has run
Settled(p, i) ==
    /\ ~Pending(peer'[p], i)
    /\ \/ Pending(peer[p], i)
       \/ i = Len(peer[p].handled) + 1

\* C17: a message other than HELLO, AUTH and ERROR_MSG that arrived while
\* the state was not GOT_AUTH drops the session with IGNORE_WRITE_QUEUE
\* when the session (not yet closing, its overlay not shutting down) gets
\* to it, and no handler is called for it.
C17_EarlyMessageDrops ==
    [][\A p \in Peers : \A i \in 1..Len(peer'[p].handled) :
          LET h == peer'[p].handled[i]
          IN  (/\ h.st # GOT_AUTH
               /\ h.am.message.type \notin {"HELLO", "AUTH", "ERROR_MSG"}
               /\ ~shouldAbort(peer[p], down[p])
               /\ Settled(p, i))
              => /\ peer'[p].mState = CLOSING
                 /\ peer'[p].mDropMode = IGNORE_WRITE_QUEUE
                 /\ \A k \in 1..Len(peer'[p].recorded) :
                        peer'[p].recorded[k].n # i]_vars

(* ------------------------------- timeouts ------------------------------ *)

\* the recurring timer of the timed session expires in this step
TimerStep == TimerPending /\ ev'.op = "recurrentTimerExpired"

\* the timed session is dropped in this step for the given reason
DroppedFor(reason) ==
    /\ peer'[Timed].mState = CLOSING
    /\ peer'[Timed].mDropReason = reason
    /\ peer'[Timed].mDropDirection = WE_DROPPED_REMOTE
    /\ peer'[Timed].mDropMode = IGNORE_WRITE_QUEUE

\* nothing was read and nothing was written for the IO timeout of the state
IdleNow ==
    LET timeout == IF peer[Timed].mState = GOT_AUTH
                   THEN cfg[Timed].PEER_TIMEOUT
                   ELSE cfg[Timed].PEER_AUTHENTICATION_TIMEOUT
    IN  /\ now[Timed] - peer[Timed].mLastRead >= timeout
        /\ now[Timed] - peer[Timed].mLastWrite >= timeout

\* the last grant of the peer is at least PEER_SEND_MODE_IDLE_TIMEOUT old
FlowIdleNow ==
    /\ peer[Timed].mOutboundCapacityTimestamp # nullopt
    /\ now[Timed] - peer[Timed].mOutboundCapacityTimestamp[1] >=
           PEER_SEND_MODE_IDLE_TIMEOUT

\* the last message was queued at least PEER_STRAGGLER_TIMEOUT ago
StragglingNow ==
    now[Timed] - peer[Timed].mEnqueueTimeOfLastWrite >=
        cfg[Timed].PEER_STRAGGLER_TIMEOUT

\* C18: when the recurring timer fires, the session is dropped with reason
\* "idle timeout" if and only if now - last read and now - last write are
\* both at least the IO timeout, which is PEER_AUTHENTICATION_TIMEOUT while
\* the state is not GOT_AUTH and PEER_TIMEOUT in GOT_AUTH.
C18_IdleTimeout ==
    [][TimerStep =>
          (peer'[Timed].mState = CLOSING
               /\ peer'[Timed].mDropReason = "idle timeout")
          <=> IdleNow]_vars

\* an authenticated session that read or wrote within PEER_TIMEOUT of an
\* earlier expiry is dropped as idle at a later one
C18_Witness ==
    /\ ev.op = "recurrentTimerExpired"
    /\ ev.pre.mState = GOT_AUTH
    /\ peer[Timed].mDropReason = "idle timeout"
    /\ peer[Timed].mDropMode = IGNORE_WRITE_QUEUE
    /\ now[Timed] >= 2 * cfg[Timed].PEER_TIMEOUT
    /\ peer[Timed].mLastRead > 0

\* C19 as stated: when the timer fires in GOT_AUTH and the last grant is at
\* least PEER_SEND_MODE_IDLE_TIMEOUT old, the session is dropped with
\* reason "idle timeout (no new flood requests)".
C19_Original ==
    [][(TimerStep /\ peer[Timed].mState = GOT_AUTH /\ FlowIdleNow)
          => DroppedFor("idle timeout (no new flood requests)")]_vars

\* C19, amended: when the timer fires in GOT_AUTH and the last grant is at
\* least PEER_SEND_MODE_IDLE_TIMEOUT old, the session is dropped: with
\* reason "idle timeout" if the connection is idle as well, with reason
\* "idle timeout (no new flood requests)" otherwise.
C19_FlowIdleTimeout ==
    [][(TimerStep /\ peer[Timed].mState = GOT_AUTH /\ FlowIdleNow)
          => IF IdleNow
             THEN DroppedFor("idle timeout")
             ELSE DroppedFor("idle timeout (no new flood requests)")]_vars

\* the session, kept busy for 60 seconds without a grant, is dropped
C19_Witness ==
    /\ ev.op = "recurrentTimerExpired"
    /\ ev.pre.mState = GOT_AUTH
    /\ peer[Timed].mState = CLOSING
    /\ peer[Timed].mDropReason = "idle timeout (no new flood requests)"
    /\ now[Timed] - peer[Timed].mOutboundCapacityTimestamp[1] >=
           PEER_SEND_MODE_IDLE_TIMEOUT

\* C20 as stated: when the timer fires and the last message was queued at
\* least PEER_STRAGGLER_TIMEOUT ago, the session is dropped with reason
\* "straggling (cannot keep up)".
C20_Original ==
    [][(TimerStep /\ StragglingNow)
          => DroppedFor("straggling (cannot keep up)")]_vars

\* C20, amended: when the timer fires and the last message was queued at
\* least PEER_STRAGGLER_TIMEOUT ago, the session is dropped: with reason
\* "idle timeout" if the connection is idle, else with reason "idle timeout
\* (no new flood requests)" if the last grant is too old, else with reason
\* "straggling (cannot keep up)".
C20_StragglerTimeout ==
    [][(TimerStep /\ StragglingNow)
          => IF IdleNow
             THEN DroppedFor("idle timeout")
             ELSE IF FlowIdleNow
             THEN DroppedFor("idle timeout (no new flood requests)")
             ELSE DroppedFor("straggling (cannot keep up)")]_vars

\* a session that still reads is dropped as a straggler
C20_Witness ==
    /\ ev.op = "recurrentTimerExpired"
    /\ peer[Timed].mState = CLOSING
    /\ peer[Timed].mDropReason = "straggling (cannot keep up)"
    /\ now[Timed] - peer[Timed].mEnqueueTimeOfLastWrite >=
           cfg[Timed].PEER_STRAGGLER_TIMEOUT
    /\ now[Timed] - peer[Timed].mLastRead < cfg[Timed].PEER_TIMEOUT

(* ------------------- the end of a session, C21 to C22 ------------------ *)

\* the step is a call of drop on a session that was dropped before, or a
\* call of shutdown on a session that was shut down before
RepeatedCall ==
    \/ ev'.op = "drop" /\ peer[Served].mState = CLOSING
    \/ ev'.op = "shutdown" /\ peer[Served].mShuttingDown

TimerCallback ==
    ev'.op \in {"recurrentTimerExpired", "advertTimerExpired", "onSuccess"}

\* C22 as stated: once shutdown was called on a session, no step runs the
\* success callback of its recurring timer, of its advert timer or of its
\* delayed-execution timer.
C22_NoCallbackAfterShutdown ==
    [][TimerCallback => ~peer[Served].mShuttingDown]_vars

(* --------------- load shedding, adverts and demands, C23 to C27 -------- *)

\* the step is a call of Peer::sendMessage on the served session
SendStep == ev'.op = "sendMessage"

\* the call runs in a droppable action while the write queue is overloaded
Shedding ==
    ev'.env.actionType = DROPPABLE_ACTION /\ ev'.env.overloaded

\* the messages a session wrote, followed by those it queued behind the
\* outbound credit
Outgoing(s) ==
    [i \in 1..Len(s.written) |-> s.written[i].am.message] \o s.mOutboundQueue

\* the message of the call was written at once and the queue is as it was,
\* or it went to the end of the queue, of which flow control may have
\* written the oldest messages
HandedOn ==
    LET s == peer[Served]
        s2 == peer'[Served]
    IN  \/ /\ s2.mOutboundQueue = s.mOutboundQueue
           /\ Len(s2.written) = Len(s.written) + 1
           /\ s2.written[Len(s2.written)].am.message = ev'.am.message
        \/ Outgoing(s2) = Append(Outgoing(s), ev'.am.message)

\* C23: a call of sendMessage in a droppable action with an overloaded
\* write queue writes nothing, queues nothing and adds one to the message
\* drop counter of the peer and one to the global one; every other call
\* leaves both counters and either writes the message or queues it behind
\* the outbound credit.
C23_LoadShedding ==
    [][SendStep =>
          IF Shedding
          THEN /\ peer'[Served].written = peer[Served].written
               /\ peer'[Served].mOutboundQueue = peer[Served].mOutboundQueue
               /\ chan' = chan
               /\ peer'[Served].mMessageDrop = peer[Served].mMessageDrop + 1
               /\ peer'[Served].overlayMessageDrop =
                      peer[Served].overlayMessageDrop + 1
          ELSE /\ peer'[Served].mMessageDrop = peer[Served].mMessageDrop
               /\ peer'[Served].overlayMessageDrop =
                      peer[Served].overlayMessageDrop
               /\ HandedOn]_vars

\* a message of a droppable action was shed, and before it a flood message
\* of a droppable action was queued behind the credit while the write
\* queue was not overloaded
C23_Witness ==
    /\ ev.op = "sendMessage"
    /\ ev.env.actionType = DROPPABLE_ACTION
    /\ ev.env.overloaded
    /\ peer[Served].mMessageDrop = 1
    /\ peer[Served].overlayMessageDrop = 1
    /\ peer[Served].mOutboundQueue # <<>>

\* the hashes of a list
Range(seq) == {seq[i] : i \in 1..Len(seq)}

\* the step writes a FLOOD_ADVERT of the served session to the peer
AdvertSent ==
    /\ ev'.op = "sendMessage"
    /\ ev'.am.message.type = "FLOOD_ADVERT"
    /\ Len(peer'[Served].written) > Len(peer[Served].written)

\* the step hands a FLOOD_ADVERT of the peer to recvFloodAdvert
AdvertReceived ==
    /\ ev'.op = "recvRawMessage"
    /\ ev'.am.message.type = "FLOOD_ADVERT"
    /\ Len(peer'[Served].recorded) > Len(peer[Served].recorded)

\* C24 as stated: after a step that sends or receives a FLOOD_ADVERT, the
\* session knows every hash of the advert that the cache did not evict in
\* the step, with the ledger sequence of the step.
C24_AdvertRecorded ==
    [][(AdvertSent \/ AdvertReceived)
          => \A h \in Range(ev'.am.message.txHashes) :
                \/ <<h, ev'.env.ledgerSeq>> \in peer'[Served].mAdvertHistory
                \/ /\ Cardinality(peer'[Served].mAdvertHistory) =
                          ADVERT_CACHE_SIZE
                   /\ ~peerKnowsHash(peer'[Served], h)]_vars

\* the receiving half of C24_AdvertRecorded
AdvertReceivedRecorded ==
    [][AdvertReceived
          => \A h \in Range(ev'.am.message.txHashes) :
                \/ <<h, ev'.env.ledgerSeq>> \in peer'[Served].mAdvertHistory
                \/ /\ Cardinality(peer'[Served].mAdvertHistory) =
                          ADVERT_CACHE_SIZE
                   /\ ~peerKnowsHash(peer'[Served], h)]_vars

\* the step is a call of clearBelow on the served session
ClearStep == ev'.op = "clearBelow"

\* C25: the advert history never holds more than ADVERT_CACHE_SIZE
\* entries, and a call clearBelow(L) leaves exactly the entries whose
\* ledger sequence is at least L.
C25_AdvertHistoryBounded ==
    /\ [](Cardinality(peer[Served].mAdvertHistory) <= ADVERT_CACHE_SIZE)
    /\ [][ClearStep
             => peer'[Served].mAdvertHistory =
                    {e \in peer[Served].mAdvertHistory :
                        e[2] >= ev'.am.message.num}]_vars

\* the session received more hashes than the cache holds, in adverts of
\* two ledgers, and clearBelow of the later ledger left one of them
C25_Witness ==
    /\ ev.op = "clearBelow"
    /\ ev.am.message.num = 2
    /\ Len(peer[Served].handled) = 6
    /\ \E h \in Hashes : peer[Served].mAdvertHistory = {<<h, 2>>}

\* the step hands a FLOOD_DEMAND of the peer to recvFloodDemand
DemandReceived ==
    /\ ev'.op = "recvRawMessage"
    /\ ev'.am.message.type = "FLOOD_DEMAND"
    /\ Len(peer'[Served].recorded) > Len(peer[Served].recorded)

\* the demanded hashes the herder has a transaction for, those it tells
\* banned, and the others, in the order of the demand
KnownOf(e) == SelectSeq(e.am.message.txHashes, LAMBDA h : h \in e.env.txKnown)

BannedOf(e) ==
    SelectSeq(e.am.message.txHashes,
              LAMBDA h : h \notin e.env.txKnown /\ h \in e.env.txBanned)

UnknownOf(e) ==
    SelectSeq(e.am.message.txHashes,
              LAMBDA h : h \notin e.env.txKnown /\ h \notin e.env.txBanned)

\* the hashes of the TRANSACTION messages a session wrote or queued
Replies(s) ==
    LET txs == SelectSeq(Outgoing(s), LAMBDA m : m.type = "TRANSACTION")
    IN  [i \in 1..Len(txs) |-> txs[i].txHashes]

\* the three counters of the step grow by the number of hashes of each kind
DemandCounted ==
    LET s == peer[Served]
        s2 == peer'[Served]
    IN  /\ s2.mMessagesFulfilled =
               s.mMessagesFulfilled + Len(KnownOf(ev'))
        /\ s2.mBannedMessageUnfulfilled =
               s.mBannedMessageUnfulfilled + Len(BannedOf(ev'))
        /\ s2.mUnknownMessageUnfulfilled =
               s.mUnknownMessageUnfulfilled + Len(UnknownOf(ev'))

\* one TRANSACTION for each known hash, and for no other, was written or
\* queued in the step
DemandAnswered ==
    Replies(peer'[Served]) =
        Replies(peer[Served]) \o [i \in 1..Len(KnownOf(ev')) |->
                                     <<KnownOf(ev')[i]>>]

\* C26 as stated: on a FLOOD_DEMAND, each known hash is answered with a
\* TRANSACTION to the peer and counted as fulfilled, each banned hash is
\* counted as unfulfilled-banned, each other hash as unfulfilled-unknown,
\* and nothing is sent for a hash that is not fulfilled.
C26_Original ==
    [][DemandReceived => DemandCounted /\ DemandAnswered]_vars

\* C26, amended: on a FLOOD_DEMAND, each known hash is counted as fulfilled
\* and a TRANSACTION for it is given to sendMessage, which sheds it when
\* the write queue is overloaded (the demand runs in a droppable action)
\* and otherwise writes it or queues it behind the outbound credit; each
\* banned hash is counted as unfulfilled-banned, each other hash as
\* unfulfilled-unknown, and nothing is sent for a hash that is not
\* fulfilled.
C26_DemandOutcomes ==
    [][DemandReceived =>
          /\ DemandCounted
          /\ IF Shedding
             THEN /\ Replies(peer'[Served]) = Replies(peer[Served])
                  /\ peer'[Served].mMessageDrop =
                         peer[Served].mMessageDrop + Len(KnownOf(ev'))
             ELSE /\ DemandAnswered
                  /\ peer'[Served].mMessageDrop =
                         peer[Served].mMessageDrop]_vars

\* a demand of a banned and an unknown hash was counted, after a demand of
\* a known hash that was answered with a TRANSACTION
C26_Witness ==
    /\ ev.op = "recvRawMessage"
    /\ ev.am.message.type = "FLOOD_DEMAND"
    /\ Len(BannedOf(ev)) = 1
    /\ Len(UnknownOf(ev)) = MaxHash - 2
    /\ peer[Served].mMessagesFulfilled = 1
    /\ peer[Served].mBannedMessageUnfulfilled = 1
    /\ peer[Served].mUnknownMessageUnfulfilled = MaxHash - 2
    /\ Replies(peer[Served]) = <<(<<1>>)>>

\* the lists of a list of lists, one after the other
RECURSIVE Flatten(_)
Flatten(lists) ==
    IF lists = <<>> THEN <<>> ELSE Head(lists) \o Flatten(Tail(lists))

\* the FLOOD_ADVERT messages among msgs
AdvertsIn(msgs) == SelectSeq(msgs, LAMBDA m : m.type = "FLOOD_ADVERT")

\* the hashes of the adverts sendMessage wrote or queued behind the credit
Advertised(s) ==
    LET a == AdvertsIn(Outgoing(s))
    IN  Flatten([i \in 1..Len(a) |-> a[i].txHashes])

\* the hashes of the adverts whose sendMessage is posted
ToAdvertise(s) ==
    Flatten([i \in 1..Len(s.postedSend) |-> s.postedSend[i].txHashes])

\* every accepted hash is in one advert or in the batch, in enqueue order;
\* the batch is shorter than the maximum advert size; no advert is empty
BatchInOrder(s) ==
    /\ Advertised(s) \o ToAdvertise(s) \o s.mTxHashesToAdvertise = s.accepted
    /\ Len(s.mTxHashesToAdvertise) < MAX_ADVERT_SIZE
    /\ \A i \in 1..Len(s.postedSend) : s.postedSend[i].txHashes # <<>>
    /\ \A i \in 1..Len(Outgoing(s)) :
           Outgoing(s)[i].type = "FLOOD_ADVERT"
               => Outgoing(s)[i].txHashes # <<>>

Grants == {"SEND_MORE", "SEND_MORE_EXTENDED"}

\* the types of the handshake and of the maintenance of the overlay; every
\* other message is consensus or flood traffic
OverlayTypes ==
    {"HELLO", "AUTH", "ERROR_MSG", "PEERS", "GET_PEERS"} \cup Grants

\* the first place of a message with a type of types in frames, and
\* Len(frames) + 1 if there is none
FirstOf(frames, types) ==
    LET at == {i \in 1..Len(frames) : frames[i].message.type \in types}
    IN  IF at = {} THEN Len(frames) + 1
        ELSE CHOOSE i \in at : \A j \in at : i <= j

\* the step takes session p from GOT_HELLO to GOT_AUTH, accepted
Authenticates(p) ==
    /\ peer[p].mState = GOT_HELLO
    /\ peer'[p].mState = GOT_AUTH

\* the step takes session p from GOT_HELLO to the drop of a rejected peer
Rejects(p) ==
    /\ peer[p].mState = GOT_HELLO
    /\ peer'[p].mState = CLOSING
    /\ peer'[p].mDropReason = "peer rejected"

\* C28: the step that takes a session to GOT_AUTH writes one initial grant,
\* before the GET_SCP_STATE it writes and before any other consensus or
\* flood message; a session has written no consensus or flood message
\* before that step; the step that rejects the peer writes no grant and
\* does not start flow control.
C28_GrantFirst ==
    /\ [](\A p \in Peers :
            ~peer[p].fcStarted
                => \A i \in 1..Len(peer[p].written) :
                      peer[p].written[i].am.message.type \in OverlayTypes)
    /\ [][\A p \in Peers :
            /\ Authenticates(p)
                 => LET new == NewFrames(peer[p], peer'[p])
                        g == FirstOf(new, Grants)
                    IN  /\ peer'[p].fcStarted
                        /\ g <= Len(new)
                        /\ \A i \in 1..Len(new) :
                              /\ i < g => new[i].message.type
                                              \in {"AUTH", "PEERS"}
                              /\ i > g => new[i].message.type \notin Grants
                        /\ FirstOf(new, {"GET_SCP_STATE"}) = g + 1
            /\ Rejects(p)
                 => /\ ~peer'[p].fcStarted
                    /\ FirstOf(NewFrames(peer[p], peer'[p]), Grants) >
                           Len(NewFrames(peer[p], peer'[p]))]_vars

\* an acceptor answered the AUTH with its AUTH, PEERS, its grant and
\* GET_SCP_STATE, in this order
C28_Witness ==
    /\ ev.op = "recvMessage"
    /\ ev.am.message.type = "AUTH"
    /\ peer[ev.peer].mRole = REMOTE_CALLED_US
    /\ peer[ev.peer].mState = GOT_AUTH
    /\ LET w == peer[ev.peer].written
           n == Len(w)
       IN  /\ n = 5
           /\ w[2].am.message.type = "AUTH"
           /\ w[3].am.message.type = "PEERS"
           /\ w[4].am.message.type \in Grants
           /\ w[5].am.message.type = "GET_SCP_STATE"

\* the frame the step delivers to session p
DeliveredTo(p) == IF ev'.peer = p THEN ev'.am.message ELSE HcnetMessage("NONE")

\* C29: the step that takes a session to GOT_AUTH enables the byte axis of
\* flow control if and only if the local and the remote overlay version are
\* at least FIRST_VERSION_SUPPORTING_FLOW_CONTROL_IN_BYTES, the AUTH
\* received carries AUTH_MSG_FLAG_FLOW_CONTROL_BYTES_REQUESTED and the local
\* node has ENABLE_FLOW_CONTROL_BYTES; the byte axis never changes later;
\* and a session sets the flag in the AUTH it sends exactly when the local
\* node has ENABLE_FLOW_CONTROL_BYTES.
C29_ByteAxis ==
    /\ [][\A p \in Peers :
            /\ Authenticates(p)
                 => /\ peer'[p].fcBytes =
                           (/\ cfg[p].OVERLAY_PROTOCOL_VERSION >=
                                  FIRST_VERSION_SUPPORTING_FLOW_CONTROL_IN_BYTES
                            /\ peer'[p].mRemoteOverlayVersion >=
                                  FIRST_VERSION_SUPPORTING_FLOW_CONTROL_IN_BYTES
                            /\ DeliveredTo(p).flags =
                                  AUTH_MSG_FLAG_FLOW_CONTROL_BYTES_REQUESTED
                            /\ cfg[p].ENABLE_FLOW_CONTROL_BYTES)
                    /\ (peer'[p].mFlowControlBytesCapacity # nullopt)
                           = peer'[p].fcBytes
            /\ peer[p].fcStarted
                 => /\ peer'[p].fcBytes = peer[p].fcBytes
                    /\ (peer'[p].mFlowControlBytesCapacity # nullopt)
                           = peer[p].fcBytes]_vars
    /\ [](\A p \in Peers : \A i \in 1..Len(peer[p].written) :
            peer[p].written[i].am.message.type = "AUTH"
                => (peer[p].written[i].am.message.flags =
                        AUTH_MSG_FLAG_FLOW_CONTROL_BYTES_REQUESTED)
                       = cfg[p].ENABLE_FLOW_CONTROL_BYTES)
    /\ [](\A p \in Peers : ~peer[p].fcStarted => ~peer[p].fcBytes)

\* both sessions enabled the byte axis: both nodes want it and both overlay
\* versions support it
C29_Witness ==
    \A p \in Peers :
        /\ peer[p].mState = GOT_AUTH
        /\ peer[p].fcBytes
        /\ peer[p].mFlowControlBytesCapacity # nullopt
        /\ cfg[p].ENABLE_FLOW_CONTROL_BYTES

\* a session uses the message axis only although the peer asked for the
\* byte axis in its AUTH and both overlay versions support it
MessageAxisOnly ==
    \E p \in Peers :
        /\ peer[p].mState = GOT_AUTH
        /\ ~peer[p].fcBytes
        /\ ~cfg[p].ENABLE_FLOW_CONTROL_BYTES
        /\ cfg[Other(p)].ENABLE_FLOW_CONTROL_BYTES
        /\ cfg[p].OVERLAY_PROTOCOL_VERSION >=
               FIRST_VERSION_SUPPORTING_FLOW_CONTROL_IN_BYTES
        /\ peer[p].mRemoteOverlayVersion >=
               FIRST_VERSION_SUPPORTING_FLOW_CONTROL_IN_BYTES

\* the step runs the oldest posted message of the served session and ends
\* its processing
EndStep ==
    /\ ev'.op = "recvRawMessage"
    /\ peer[Served].posted # <<>>
    /\ peer'[Served].posted = Tail(peer[Served].posted)

\* the reading capacity of the message axis that is free
TotalCapacity(s) == s.mFlowControlCapacity.mCapacity.mTotalCapacity[1]

\* the processing ended on a session that reads on: the capacity of the
\* message is back, the session can read, it is not throttled, and a read
\* was scheduled if it was throttled
ReadsOn ==
    /\ TotalCapacity(peer'[Served]) = TotalCapacity(peer[Served]) + 1
    /\ canRead(peer'[Served])
    /\ ~peer'[Served].mIsPeerThrottled
    /\ peer'[Served].scheduledReads =
           peer[Served].scheduledReads
               + (IF peer[Served].mIsPeerThrottled THEN 1 ELSE 0)

\* C30 as stated: when the processing of a message ends on a session that
\* is not closing, the capacity is returned, the session can read, and a
\* throttled session is no longer throttled and has a read scheduled.
C30_Original ==
    [][(EndStep /\ peer'[Served].mState # CLOSING) => ReadsOn]_vars

\* C30, amended: when the processing of a message ends on a session that
\* is not closing and whose overlay manager is not shutting down, the
\* capacity is returned, the session can read, and a throttled session is
\* no longer throttled and has a read scheduled; otherwise nothing is
\* returned and nothing is scheduled.  A throttled session cannot read.
C30_ResumesReading ==
    /\ [][EndStep =>
            IF peer'[Served].mState # CLOSING /\ ~down[Served]
            THEN ReadsOn
            ELSE /\ TotalCapacity(peer'[Served]) =
                        TotalCapacity(peer[Served])
                 /\ peer'[Served].mIsPeerThrottled =
                        peer[Served].mIsPeerThrottled
                 /\ peer'[Served].scheduledReads =
                        peer[Served].scheduledReads]_vars
    /\ [](peer[Served].mIsPeerThrottled => ~canRead(peer[Served]))

\* a throttled session ended the processing of a message: it reads again
C30_Witness ==
    /\ ev.op = "recvRawMessage"
    /\ peer[Served].mState = GOT_AUTH
    /\ ~down[Served]
    /\ peer[Served].scheduledReads = 1
    /\ ~peer[Served].mIsPeerThrottled
    /\ canRead(peer[Served])
    /\ TotalCapacity(peer[Served]) = 1

(* ------------------- C31: discard when out of sync -------------------- *)

\* the reading capacity of session s on both axes
LocalCapacity(s) ==
    <<s.mFlowControlCapacity.mCapacity,
      IF s.mFlowControlBytesCapacity = nullopt
      THEN nullopt
      ELSE <<s.mFlowControlBytesCapacity[1].mCapacity>>>>

\* the message that arrived at session p was neither posted nor handled
NotPassedOn(p) ==
    /\ peer'[p].posted = peer[p].posted
    /\ peer'[p].delivered = peer[p].delivered
    /\ peer'[p].recorded = peer[p].recorded

\* C31 as stated: a TRANSACTION, FLOOD_ADVERT or FLOOD_DEMAND that arrives
\* while the ledger is not synced is neither posted nor handled, and the
\* reading capacity after the discard is the one before the arrival.
C31_Original ==
    [][\A p \in Peers :
          DiscardedOutOfSync(p) =>
              /\ NotPassedOn(p)
              /\ LocalCapacity(peer'[p]) = LocalCapacity(peer[p])]_vars

\* C31, amended: a TRANSACTION, FLOOD_ADVERT or FLOOD_DEMAND that arrives
\* while the ledger is not synced is neither posted nor handled; the
\* reading capacity after the discard is the one before the arrival unless
\* the message did not fit the capacity, and then the session is dropped
\* with the capacity it took not returned.
C31_DiscardedOutOfSync ==
    [][\A p \in Peers :
          DiscardedOutOfSync(p) =>
              /\ NotPassedOn(p)
              /\ IF flowBeginMessageProcessing(peer[p], ev'.am.message).ok
                 THEN /\ LocalCapacity(peer'[p]) = LocalCapacity(peer[p])
                      /\ peer'[p].mState = peer[p].mState
                 ELSE /\ peer'[p].mState = CLOSING
                      /\ peer'[p].mDropReason =
                             "unexpected flood message, peer at capacity"
                      /\ LocalCapacity(peer'[p]) =
                             LocalCapacity(flowBeginMessageProcessing(
                                               peer[p], ev'.am.message).s)]_vars

\* an authenticated session has discarded a flood message that fitted its
\* capacity, the ledger not being synced, and granted the credit again
C31_Witness ==
    \E p \in Peers :
        /\ ev.peer = p /\ ev.op = "recvMessage"
        /\ ignoreIfOutOfSync(ev.am.message.type)
        /\ ~ev.env.isSynced
        /\ peer[p].mState = GOT_AUTH
        /\ peer[p].posted = <<>>
        /\ Len(peer[p].handled) = ev.pre.nHandled + 1
        /\ peer[p].written[Len(peer[p].written)].am.message.type
               \in {"SEND_MORE", "SEND_MORE_EXTENDED"}
        /\ Count(peer[p], "SEND_MORE") + Count(peer[p], "SEND_MORE_EXTENDED")
               >= 2

(* ----------------------- C32: the router's table ---------------------- *)

\* the message types of the overlay protocol
MessageTypes ==
    {"ERROR_MSG", "HELLO", "AUTH", "DONT_HAVE", "GET_PEERS", "PEERS",
     "GET_TX_SET", "TX_SET", "GENERALIZED_TX_SET", "TRANSACTION",
     "GET_SCP_QUORUMSET", "SCP_QUORUMSET", "SCP_MESSAGE", "GET_SCP_STATE",
     "SURVEY_REQUEST", "SURVEY_RESPONSE", "SEND_MORE", "SEND_MORE_EXTENDED",
     "FLOOD_ADVERT", "FLOOD_DEMAND"}

\* the remote node writes a message of any type
RemoteWrites ==
    /\ Len(peer[Other(Served)].written) < 4 + MaxRouted
    /\ \E t \in MessageTypes :
        LET msg == [HcnetMessage(t) EXCEPT
                       !.txHashes = IF t \in {"FLOOD_ADVERT", "FLOOD_DEMAND"}
                                    THEN <<1>> ELSE <<>>,
                       !.num = IF t \in {"SEND_MORE", "SEND_MORE_EXTENDED"}
                               THEN 1 ELSE 0,
                       !.numBytes = IF t = "SEND_MORE_EXTENDED" THEN 1 ELSE 0]
        IN  /\ Becomes(Other(Served),
                       sendAuthenticatedMessage(peer[Other(Served)], msg),
                       chan[Other(Served)])
            /\ ev' = Event(Other(Served), "sendAuthenticatedMessage",
                           [NoFrame EXCEPT !.message = msg], EnvDefault)
    /\ UNCHANGED <<cfg, ltx, applied, down, nAsync, now>>

\* the served session reads the next frame, its ledger synced or not
RouterDeliver ==
    /\ chan[Served] # <<>>
    /\ peer[Served].mState \notin {CONNECTING, CLOSING}
    /\ canRead(peer[Served])
    /\ \E k \in BOOLEAN :
        LET env == [EnvDefault EXCEPT !.isSynced = k]
        IN  /\ \E s2 \in {recvAuthenticatedMessage(
                              peer[Served], cfg[Served], At(Served), env,
                              down[Served], Head(chan[Served]))} :
                   Becomes(Served, s2, Tail(chan[Served]))
            /\ ev' = Event(Served, "recvMessage", Head(chan[Served]), env)
    /\ UNCHANGED <<cfg, ltx, applied, down, nAsync, now>>

\* messages of every type arrive at an established session
RouterNext ==
    \/ RemoteWrites
    \/ RouterDeliver
    \/ RunAdvert

SpecRouter == AppInit /\ [][RouterNext]_vars

\* the table of the router: the types handled on the receiving thread, the
\* types posted as droppable, and the types discarded when out of sync
Synchronous == {"HELLO", "AUTH"}

HighVolume == {"TRANSACTION", "FLOOD_ADVERT", "FLOOD_DEMAND"}

Queries == {"GET_TX_SET", "GET_SCP_QUORUMSET", "GET_SCP_STATE"}

\* the served session has, in this step, passed a message to the router
Routed ==
    /\ ev'.peer = Served /\ ev'.op = "recvMessage"
    /\ Len(peer'[Served].handled) = Len(peer[Served].handled) + 1

\* the message of this step was posted to the main thread in class c, with
\* its capacity taken
PostedAs(c) ==
    /\ peer'[Served].posted =
           Append(peer[Served].posted,
                  [msg |-> ev'.am.message, type |-> c,
                   n |-> Len(peer'[Served].handled)])
    /\ peer'[Served].delivered = peer[Served].delivered
    /\ TotalCapacity(peer'[Served]) = TotalCapacity(peer[Served]) - 1

\* C32: HELLO and AUTH are handled at once and take no capacity;
\* TRANSACTION, FLOOD_ADVERT and FLOOD_DEMAND are posted as droppable when
\* the ledger is synced and discarded when it is not; GET_TX_SET,
\* GET_SCP_QUORUMSET and GET_SCP_STATE are posted as droppable, synced or
\* not; every other type is posted as normal, synced or not; a posted
\* message holds one unit of the total capacity until its task ends.
C32_RouterTable ==
    [][/\ Routed =>
           LET t == ev'.am.message.type
           IN  CASE t \in Synchronous ->
                      /\ peer'[Served].posted = peer[Served].posted
                      /\ Len(peer'[Served].delivered) =
                             Len(peer[Served].delivered) + 1
                      /\ LocalCapacity(peer'[Served]) =
                             LocalCapacity(peer[Served])
                 [] t \in HighVolume ->
                      IF ev'.env.isSynced
                      THEN PostedAs(DROPPABLE_ACTION)
                      ELSE /\ NotPassedOn(Served)
                           /\ LocalCapacity(peer'[Served]) =
                                  LocalCapacity(peer[Served])
                 [] t \in Queries -> PostedAs(DROPPABLE_ACTION)
                 [] OTHER -> PostedAs(NORMAL_ACTION)
       /\ (EndStep /\ peer'[Served].mState # CLOSING) =>
              TotalCapacity(peer'[Served]) = TotalCapacity(peer[Served]) + 1
      ]_vars

\* the session has posted, with its ledger not synced, a consensus query as
\* droppable behind a survey message posted as normal
C32_Witness ==
    /\ ev.peer = Served /\ ev.op = "recvMessage"
    /\ ~ev.env.isSynced
    /\ Len(peer[Served].posted) = 2
    /\ peer[Served].posted[1].msg.type = "SURVEY_REQUEST"
    /\ peer[Served].posted[1].type = NORMAL_ACTION
    /\ peer[Served].posted[2].msg.type = "GET_TX_SET"
    /\ peer[Served].posted[2].type = DROPPABLE_ACTION

(* ------------------------------ C33: ping ------------------------------ *)

\* the clock of both nodes advances
PingTick ==
    /\ now[Served] < MaxPingNow
    /\ now' = [p \in Peers |-> now[p] + 1]
    /\ ev' = Event(Served, "tick", NoFrame, EnvDefault)
    /\ UNCHANGED <<peer, chan, cfg, ltx, applied, down, nAsync>>

\* the recurring timer or the survey calls pingPeer
PingCall ==
    /\ Count(peer[Served], "GET_SCP_QUORUMSET") < MaxPings
    /\ AppCall("pingPeer", HcnetMessage("NONE"), At(Served),
               pingPeer(peer[Served], At(Served)))
    /\ UNCHANGED nAsync

\* the remote node writes a DONT_HAVE or a SCP_QUORUMSET of any hash
RemoteReplies ==
    /\ Count(peer[Other(Served)], "DONT_HAVE")
           + Count(peer[Other(Served)], "SCP_QUORUMSET") < MaxReplies
    /\ \E t \in {"DONT_HAVE", "SCP_QUORUMSET"}, h \in 0..PingIds :
        LET msg == [HcnetMessage(t) EXCEPT !.hash = h]
        IN  /\ Becomes(Other(Served),
                       sendAuthenticatedMessage(peer[Other(Served)], msg),
                       chan[Other(Served)])
            /\ ev' = Event(Other(Served), "sendAuthenticatedMessage",
                           [NoFrame EXCEPT !.message = msg], EnvDefault)
    /\ UNCHANGED <<cfg, ltx, applied, down, nAsync, now>>

\* the remote node reads the ping and answers it
RemoteReads == DeliverOk(Other(Served))

RemoteRuns == RunPosted(Other(Served))

\* pings of an established session, the answers of the remote node, the
\* clock, and the end of the session
PingNext ==
    \/ PingTick
    \/ PingCall
    \/ RemoteReplies
    \/ RemoteReads
    \/ RemoteRuns
    \/ AppDeliver
    \/ RunAdvert
    \/ DropCall

SpecPing == AppInit /\ [][PingNext]_vars

\* the frames the served session writes in this step
Writes ==
    NewFrames(peer[Served], peer'[Served])

\* the served session handles, in this step, a DONT_HAVE or a SCP_QUORUMSET
\* whose hash is the hash of the outstanding ping
MatchingReply ==
    /\ ev'.peer = Served /\ ev'.op = "recvRawMessage"
    /\ ev'.am.message.type \in {"DONT_HAVE", "SCP_QUORUMSET"}
    /\ peer[Served].mPingSentTime # PING_NOT_SENT
    /\ ev'.am.message.hash = pingIDfromTimePoint(peer[Served].mPingSentTime)

\* the served session sends, in this step, a ping for the hash of the time
PingSent ==
    /\ ev'.peer = Served /\ ev'.op = "pingPeer"
    /\ peer[Served].mState = GOT_AUTH
    /\ peer[Served].mPingSentTime = PING_NOT_SENT
    /\ peer'[Served].mPingSentTime = now[Served]
    /\ Len(Writes) = 1
    /\ Writes[1].message.type = "GET_SCP_QUORUMSET"
    /\ Writes[1].message.hash = pingIDfromTimePoint(now[Served])

\* C33: a ping is written only by pingPeer on an authenticated session with
\* no ping outstanding, and pingPeer writes one there; the marker of the
\* outstanding ping is cleared and the round-trip time recorded only when a
\* DONT_HAVE or SCP_QUORUMSET with the hash of the outstanding ping is
\* handled, and a session that is not closing clears it then; every other
\* reply leaves the marker and the last round-trip time as they are.
C33_Ping ==
    [][LET s == peer[Served]
           s2 == peer'[Served]
       IN  /\ (\E i \in 1..Len(Writes) :
                   Writes[i].message.type = "GET_SCP_QUORUMSET") => PingSent
           /\ (ev'.peer = Served /\ ev'.op = "pingPeer"
                   /\ s.mState = GOT_AUTH
                   /\ s.mPingSentTime = PING_NOT_SENT) => PingSent
           /\ (s.mPingSentTime # PING_NOT_SENT
                   /\ s2.mPingSentTime # s.mPingSentTime) =>
                  /\ MatchingReply
                  /\ s2.mPingSentTime = PING_NOT_SENT
                  /\ s2.mLastPing = now[Served] - s.mPingSentTime
           /\ s2.mLastPing # s.mLastPing =>
                  MatchingReply /\ s2.mPingSentTime = PING_NOT_SENT
           /\ (MatchingReply /\ s.mState # CLOSING) =>
                  s2.mPingSentTime = PING_NOT_SENT
      ]_vars

\* the session has sent a second ping after the first was answered, has
\* handled a reply with another hash, and the second ping is outstanding
C33_Witness ==
    /\ ev.peer = Served /\ ev.op = "recvRawMessage"
    /\ ev.am.message.type \in {"DONT_HAVE", "SCP_QUORUMSET"}
    /\ Count(peer[Served], "GET_SCP_QUORUMSET") = 2
    /\ peer[Served].mPingSentTime # PING_NOT_SENT
    /\ ev.am.message.hash # pingIDfromTimePoint(peer[Served].mPingSentTime)
    /\ peer[Served].mLastPing # LAST_PING_DEFAULT
    /\ peer[Served].mLastPing > 0

(* ---------------------- C34: the bound of the batch -------------------- *)

\* the transaction pool tells the session a hash to advertise, also when
\* the batch is full
BatchQueue ==
    /\ Len(peer[Served].accepted) < TX_ADVERT_VECTOR_MAX_SIZE + MaxOverflow
    /\ \E h \in 1..2 :
        AppCall("queueTxHashToAdvertise",
                [HcnetMessage("NONE") EXCEPT !.txHashes = <<h>>],
                At(Served),
                queueTxHashToAdvertise(peer[Served], down[Served], h))
    /\ UNCHANGED nAsync

\* the ledger changes and with it the ceiling the overlay manager answers
AdvertSizeChanges ==
    /\ \E n \in 1..(TX_ADVERT_VECTOR_MAX_SIZE + 1) :
        /\ n # peer[Served].maxAdvertSize
        /\ AppCall("getMaxAdvertSize", HcnetMessage("NONE"), At(Served),
                   [peer[Served] EXCEPT !.maxAdvertSize = n])
    /\ UNCHANGED nAsync

\* hashes queued under every ceiling of the batch, the flush timer and the
\* posted sends
BatchNext ==
    \/ BatchQueue
    \/ AdvertSizeChanges
    \/ AdvertTimerExpired
    \/ RunPostedSend

SpecBatch == AppInit /\ [][BatchNext]_vars

\* the step is a call of queueTxHashToAdvertise on a full batch
QueuedOnFull ==
    /\ ev'.peer = Served /\ ev'.op = "queueTxHashToAdvertise"
    /\ Len(peer[Served].mTxHashesToAdvertise) = TX_ADVERT_VECTOR_MAX_SIZE

\* C34: the batch never holds more than TX_ADVERT_VECTOR_MAX_SIZE hashes,
\* and a hash queued while the batch holds that many is dropped: the batch
\* stays as it is, nothing is posted for sending and nothing is written.
C34_BatchBounded ==
    /\ [](Len(peer[Served].mTxHashesToAdvertise)
              <= TX_ADVERT_VECTOR_MAX_SIZE)
    /\ [][QueuedOnFull =>
              /\ peer'[Served].mTxHashesToAdvertise =
                     peer[Served].mTxHashesToAdvertise
              /\ peer'[Served].accepted = peer[Served].accepted
              /\ peer'[Served].postedSend = peer[Served].postedSend
              /\ peer'[Served].written = peer[Served].written]_vars

\* hash 2 was queued on a full batch of hashes 1 and is not in the batch
C34_Witness ==
    /\ ev.peer = Served /\ ev.op = "queueTxHashToAdvertise"
    /\ ev.am.message.txHashes = <<2>>
    /\ peer[Served].mTxHashesToAdvertise =
           [i \in 1..TX_ADVERT_VECTOR_MAX_SIZE |-> 1]
    /\ peer[Served].maxAdvertSize > TX_ADVERT_VECTOR_MAX_SIZE

(* ------------------ C35: the order of HELLO and AUTH ------------------- *)

\* the HELLO of session s written under its MAC key and sequence, which
\* sendAuthenticatedMessage never does
signedHello(s, c, ctx) ==
    LET w == sendHello(s, c, ctx).written
        msg == w[Len(w)].am.message
    IN  writeXdr([s EXCEPT !.mSendMacSeq = @ + 1],
                 AuthenticatedMessage(
                     msg, s.mSendMacSeq,
                     hmacSha256(s.mSendMacKey, s.mSendMacSeq, msg)))

\* a node that does not run this code writes a HELLO, with a MAC or
\* without, or an AUTH under its MAC key and sequence, whatever the state
\* of its session
Repeats(p) ==
    /\ nAsync < MaxAsync
    /\ peer[p].mState \notin {CONNECTING, CLOSING}
    /\ \E t \in {"HELLO", "SIGNED_HELLO", "AUTH"} :
        /\ \E s \in {[peer[p] EXCEPT !.byzantine = TRUE]} :
               Becomes(p, CASE t = "HELLO" -> sendHello(s, cfg[p], At(p))
                            [] t = "SIGNED_HELLO" ->
                                   signedHello(s, cfg[p], At(p))
                            [] OTHER -> sendAuth(s, cfg[p], At(p)),
                       chan[p])
        /\ ev' = Event(p, "sendMessage",
                       [NoFrame EXCEPT !.message = HcnetMessage(t)],
                       EnvDefault)
    /\ nAsync' = nAsync + 1
    /\ UNCHANGED <<cfg, ltx, applied, down, now>>

\* the handshake of two nodes one of which may write a handshake message
\* out of its turn
OrderNext ==
    \E p \in Peers :
        \/ ConnectOk(p)
        \/ Deliver(p)
        \/ RunPosted(p)
        \/ Repeats(p)

SpecOrder == Init /\ [][OrderNext]_vars

\* session p hands, in this step, a message of type t to its handler
HandledNow(p, t) ==
    /\ ev'.peer = p /\ ev'.op = "recvMessage"
    /\ ev'.am.message.type = t
    /\ Len(peer'[p].recorded) = Len(peer[p].recorded) + 1

\* session p has accepted a HELLO whose certificate verified
HelloAccepted(p) ==
    \E i \in 1..Len(peer[p].handled) :
        LET h == peer[p].handled[i]
        IN  /\ h.am.message.type = "HELLO"
            /\ h.st = CONNECTED
            /\ verifyRemoteAuthCert(h.am.message.hello.peerID,
                                    h.am.message.hello.cert)

\* C35: the state becomes GOT_AUTH only from GOT_HELLO and only when an AUTH
\* is handled, and GOT_HELLO only from CONNECTED when a HELLO with a
\* verified certificate is handled; an AUTH handled in another state than
\* GOT_HELLO sends ERR_MISC "out-of-order AUTH message" and drops; a HELLO
\* handled in GOT_HELLO or later drops, nothing sent, and one that fails
\* the MAC check there drops as well, unless the overlay manager is
\* shutting down; an authenticated session has accepted a HELLO whose
\* certificate verified.
C35_AuthAfterHello ==
    /\ [][\A p \in Peers :
            LET s == peer[p]
                s2 == peer'[p]
                out == NewFrames(s, s2)
            IN  /\ (s2.mState = GOT_AUTH /\ s.mState # GOT_AUTH) =>
                       s.mState = GOT_HELLO /\ HandledNow(p, "AUTH")
                /\ (s2.mState = GOT_HELLO /\ s.mState # GOT_HELLO) =>
                       /\ s.mState = CONNECTED
                       /\ HandledNow(p, "HELLO")
                       /\ verifyRemoteAuthCert(ev'.am.message.hello.peerID,
                                               ev'.am.message.hello.cert)
                /\ (HandledNow(p, "AUTH") /\ s.mState # GOT_HELLO) =>
                       /\ s2.mState = CLOSING
                       /\ s2.mDropReason = "out-of-order AUTH message"
                       /\ Len(out) = 1
                       /\ out[1].message.type = "ERROR_MSG"
                       /\ out[1].message.code = "ERR_MISC"
                       /\ out[1].message.msg = "out-of-order AUTH message"
                /\ (HandledNow(p, "HELLO") /\ s.mState >= GOT_HELLO) =>
                       /\ s2.mState = CLOSING
                       /\ s2.mDropReason = "received unexpected HELLO"
                       /\ out = <<>>
                /\ (ev'.peer = p /\ ev'.op = "recvMessage"
                        /\ ev'.am.message.type = "HELLO"
                        /\ chan[p] # <<>> /\ chan'[p] = Tail(chan[p])
                        /\ ~down[p]
                        /\ s.mState \in {GOT_HELLO, GOT_AUTH}) =>
                       s2.mState = CLOSING]_vars
    /\ [](\A p \in Peers : peer[p].mState = GOT_AUTH => HelloAccepted(p))

\* an authenticated session has handled a second AUTH and is dropped
C35_Witness ==
    \E p \in Peers :
        /\ ev.peer = p /\ ev.op = "recvMessage"
        /\ ev.am.message.type = "AUTH"
        /\ ev.pre.mState = GOT_AUTH
        /\ peer[p].mState = CLOSING
        /\ peer[p].mDropReason = "out-of-order AUTH message"
        /\ HelloAccepted(p)

\* a session in GOT_HELLO has handled a second HELLO and is dropped
SecondHello ==
    \E p \in Peers :
        /\ ev.peer = p /\ ev.op = "recvMessage"
        /\ ev.am.message.type = "HELLO"
        /\ ev.pre.mState = GOT_HELLO
        /\ peer[p].mDropReason = "received unexpected HELLO"

\* a session has handled an AUTH before any HELLO and is dropped
AuthBeforeHello ==
    \E p \in Peers :
        /\ ev.peer = p /\ ev.op = "recvMessage"
        /\ ev.am.message.type = "AUTH"
        /\ ev.pre.mState = CONNECTED
        /\ peer[p].mDropReason = "out-of-order AUTH message"

(* ------------- C36: sequence numbers in wire order, no gap ------------- *)

\* a collaborator sends a message through the session, in every context
SendAny ==
    /\ nAsync < MaxWrites
    /\ \E ctx \in Contexts, t \in {"GET_SCP_STATE", "TRANSACTION"} :
        AppCall("sendMessage", HcnetMessage(t), ctx,
                sendMessage(peer[Served], ctx, HcnetMessage(t)))
    /\ nAsync' = nAsync + 1

\* messages sent through an established session, shed, queued behind the
\* credit or written, while the remote node reads them and grants credit
SendNext ==
    \/ SendAny
    \/ RemoteReads
    \/ RemoteRuns
    \/ AppDeliver
    \/ RunAdvert

SpecSend == AppInit /\ [][SendNext]_vars

\* the positions of the frames session s wrote under a MAC since recvHello
\* reset the counter: the frames that are not HELLO or ERROR_MSG, from the
\* first frame written in GOT_HELLO or GOT_AUTH on
Sequenced(s) ==
    {i \in 1..Len(s.written) :
        /\ s.written[i].am.message.type \notin {"HELLO", "ERROR_MSG"}
        /\ \E k \in 1..i : s.written[k].st \in {GOT_HELLO, GOT_AUTH}}

\* C36: the frames a session wrote under a MAC after recvHello reset the
\* counter carry, in wire order, the sequence numbers 0, 1, 2, ... and the
\* counter is the number of these frames: a message that was shed or is
\* still queued has taken no sequence number.
C36_SequenceGapless ==
    \A p \in Peers :
        LET s == peer[p]
        IN  s.mState \in {GOT_HELLO, GOT_AUTH, CLOSING} /\ Sequenced(s) # {} =>
                /\ \A i \in Sequenced(s) :
                       s.written[i].am.sequence =
                           Cardinality({j \in Sequenced(s) : j < i})
                /\ s.mSendMacSeq = Cardinality(Sequenced(s))

\* the served session has shed a message and has written three flood
\* messages, the third of which waited in the queue for a grant, and a
\* flood message is queued now
C36_Witness ==
    LET s == peer[Served]
    IN  /\ s.mMessageDrop >= 1
        /\ FloodWritten(s) = 3
        /\ s.mOutboundQueue # <<>>

(* ------------------ C37: lock and release are inverse ------------------ *)

\* the object fc after lockLocalCapacity(msg) returned true and
\* releaseLocalCapacity(msg) followed
LockedThenReleased(fc, msg) ==
    releaseLocalCapacity(lockLocalCapacity(fc, msg).fc, msg)

\* C37: in every state an inbound window reaches through locks, releases
\* and increases of the transaction size, a lockLocalCapacity(m) that
\* returns true followed by releaseLocalCapacity(m) leaves the flood
\* capacity and the total capacity as they were before the lock, and the
\* release returns the cost of m when m is a flood message and 0 otherwise.
C37_LockReleaseInverse ==
    \A p \in Peers : \A msg \in CapacityMessages :
        LET fc == CapacityOf(peer[p])
        IN  ~fc.asserted /\ lockLocalCapacity(fc, msg).ok =>
                /\ LockedThenReleased(fc, msg).fc.mCapacity = fc.mCapacity
                /\ ~LockedThenReleased(fc, msg).fc.asserted
                /\ LockedThenReleased(fc, msg).released =
                       IF isFloodMessage(msg)
                       THEN getMsgResourceCount(fc, msg) ELSE 0

\* a flood message was locked on the message axis and has just been
\* released with nothing else in processing: the flood capacity and the
\* total capacity are back at the values the window started with
C37_Witness ==
    /\ ev.op = "releaseLocalCapacity"
    /\ isFloodMessage(ev.am.message)
    /\ Capacity.axis = "messages"
    /\ peer[ev.peer].posted = <<>>
    /\ Capacity.mCapacity = CapacityOf(NewPeer(RoleOf(ev.peer), 1)).mCapacity
    /\ ~Capacity.asserted

(* --------------------- Soroban operations: ledger ---------------------- *)

\* uint32_t arithmetic wraps at 2^32; the model keeps the wrap and scales
\* the width down to 4 bits
UINT32_SPAN == 16

Uint32(x) == x % UINT32_SPAN

\* the ledgers that close while the operations are applied
MaxClosed == 1
\* the operations applied
MaxApplied == 1
\* the keys of a footprint
MaxFootprint == 2

\* SorobanNetworkConfig
sorobanConfig ==
    [stateArchivalSettings |-> [maxEntryTTL |-> 4, minPersistentTTL |-> 2],
     maxContractDataEntrySizeBytes |-> 2,
     maxContractSizeBytes |-> 2,
     txMemoryLimit |-> 1,
     txMaxContractEventsSizeBytes |-> 1]

LedgerKey(type, durability, id) ==
    [type |-> type, durability |-> durability, id |-> id]

PersistentData == LedgerKey("CONTRACT_DATA", "PERSISTENT", 1)
TemporaryData == LedgerKey("CONTRACT_DATA", "TEMPORARY", 2)
Code == LedgerKey("CONTRACT_CODE", "NONE", 3)
Account == LedgerKey("ACCOUNT", "NONE", 4)

\* the keys a footprint names
FootprintKeys == {PersistentData, TemporaryData, Code, Account}

isSorobanEntry(lk) == lk.type \in {"CONTRACT_DATA", "CONTRACT_CODE"}

isTemporaryEntry(lk) ==
    lk.type = "CONTRACT_DATA" /\ lk.durability = "TEMPORARY"

isPersistentEntry(lk) ==
    \/ lk.type = "CONTRACT_CODE"
    \/ lk.type = "CONTRACT_DATA" /\ lk.durability = "PERSISTENT"

isCodeKey(lk) == lk.type = "CONTRACT_CODE"

\* getTTLKey: the TTL key holds the hash of the key, which the model takes
\* to be the number of the key
getTTLKey(lk) == LedgerKey("TTL", "NONE", lk.id)

LedgerKeys == FootprintKeys \cup {getTTLKey(lk) : lk \in FootprintKeys}

\* a ledger entry: its key, the size of its XDR and, for a TTL entry, the
\* last ledger it lives in
LedgerEntry(lk, size, liveUntilLedgerSeq) ==
    [key |-> lk, size |-> size, liveUntilLedgerSeq |-> liveUntilLedgerSeq]

TTLEntry(lk, liveUntilLedgerSeq) ==
    LedgerEntry(getTTLKey(lk), 1, liveUntilLedgerSeq)

LedgerEntryKey(le) == le.key

\* isLive of a TTL entry
isLive(e, ledgerSeq) == e.liveUntilLedgerSeq >= ledgerSeq

\* AbstractLedgerTxn::loadWithoutRecord and load: the entry or nothing
load(l, lk) == l.entries[lk]

\* the ledger with entry le created or replaced
stored(l, le) == [l EXCEPT !.entries[le.key] = <<le>>]

\* AbstractLedgerTxn::erase
erase(l, lk) == [l EXCEPT !.entries[lk] = nullopt]

\* validateContractLedgerEntry: the size of a contract entry against the
\* limits of the network configuration
validateContractLedgerEntry(lk, entrySize, config) ==
    /\ lk.type = "CONTRACT_CODE" => entrySize <= config.maxContractSizeBytes
    /\ lk.type = "CONTRACT_DATA" =>
           entrySize <= config.maxContractDataEntrySizeBytes

\* SorobanResources
Resources(readOnly, readWrite, readBytes, writeBytes) ==
    [footprint |-> [readOnly |-> readOnly, readWrite |-> readWrite],
     readBytes |-> readBytes, writeBytes |-> writeBytes, instructions |-> 1]

\* releaseAssertOrThrow failed or an exception left doApply
Thrown == "std::runtime_error"

\* the outcome of doCheckValid or doApply: the value returned, the code of
\* innerResult() and the ledger transaction as the call left it
Outcome(ok, code, l) == [ok |-> ok, code |-> code, ltx |-> l]

(* ------------------------- ExtendFootprintTTL -------------------------- *)

ExtendFootprintTTLOp(extendTo, resources) ==
    [type |-> "EXTEND_FOOTPRINT_TTL", extendTo |-> extendTo,
     resources |-> resources]

\* ExtendFootprintTTLOpFrame::doCheckValid
Extend_doCheckValid(op, config) ==
    /\ op.resources.footprint.readWrite = <<>>
    /\ \A i \in DOMAIN op.resources.footprint.readOnly :
           isSorobanEntry(op.resources.footprint.readOnly[i])
    /\ op.extendTo <=
           Uint32(config.stateArchivalSettings.maxEntryTTL - 1 + UINT32_SPAN)

\* the loop of ExtendFootprintTTLOpFrame::doApply from key i on: st holds
\* the ledger transaction, metrics.mLedgerReadByte and the code of a failure
RECURSIVE Extend_loop_anyTTL(_, _, _)
Extend_loop_anyTTL(op, i, st) ==
    IF i > Len(op.resources.footprint.readOnly) \/ st.code # "" THEN st
    ELSE
    LET lk == op.resources.footprint.readOnly[i]
        ledgerSeq == st.ltx.header.ledgerSeq
        newLiveUntilLedgerSeq == Uint32(ledgerSeq + op.extendTo)
        ttl == load(st.ltx, getTTLKey(lk))
    IN  IF ttl = nullopt \/ ~isLive(ttl[1], ledgerSeq)
        THEN Extend_loop_anyTTL(op, i + 1, st)
        ELSE IF load(st.ltx, lk) = nullopt
        THEN [st EXCEPT !.code = Thrown]
        ELSE
        LET entrySize == load(st.ltx, lk)[1].size
            readByte == Uint32(st.mLedgerReadByte + entrySize)
        IN  IF ~validateContractLedgerEntry(lk, entrySize, sorobanConfig)
            THEN [st EXCEPT !.mLedgerReadByte = readByte,
                     !.code = "EXTEND_FOOTPRINT_TTL_RESOURCE_LIMIT_EXCEEDED"]
            ELSE IF op.resources.readBytes < readByte
            THEN [st EXCEPT !.mLedgerReadByte = readByte,
                     !.code = "EXTEND_FOOTPRINT_TTL_RESOURCE_LIMIT_EXCEEDED"]
            ELSE Extend_loop_anyTTL(op, i + 1,
                     [st EXCEPT !.mLedgerReadByte = readByte,
                         !.ltx = stored(@, TTLEntry(lk,
                                               newLiveUntilLedgerSeq))])

RECURSIVE Extend_loop(_, _, _)
Extend_loop(op, i, st) ==
    IF i > Len(op.resources.footprint.readOnly) \/ st.code # "" THEN st
    ELSE
    LET lk == op.resources.footprint.readOnly[i]
        ledgerSeq == st.ltx.header.ledgerSeq
        newLiveUntilLedgerSeq == Uint32(ledgerSeq + op.extendTo)
        ttl == load(st.ltx, getTTLKey(lk))
    IN  IF ttl = nullopt \/ ~isLive(ttl[1], ledgerSeq)
        THEN Extend_loop(op, i + 1, st)
        ELSE IF ttl[1].liveUntilLedgerSeq >= newLiveUntilLedgerSeq
        THEN Extend_loop(op, i + 1, st)
        ELSE IF load(st.ltx, lk) = nullopt
        THEN [st EXCEPT !.code = Thrown]
        ELSE
        LET entrySize == load(st.ltx, lk)[1].size
            readByte == Uint32(st.mLedgerReadByte + entrySize)
        IN  IF ~validateContractLedgerEntry(lk, entrySize, sorobanConfig)
            THEN [st EXCEPT !.mLedgerReadByte = readByte,
                     !.code = "EXTEND_FOOTPRINT_TTL_RESOURCE_LIMIT_EXCEEDED"]
            ELSE IF op.resources.readBytes < readByte
            THEN [st EXCEPT !.mLedgerReadByte = readByte,
                     !.code = "EXTEND_FOOTPRINT_TTL_RESOURCE_LIMIT_EXCEEDED"]
            ELSE Extend_loop(op, i + 1,
                     [st EXCEPT !.mLedgerReadByte = readByte,
                         !.ltx = stored(@, TTLEntry(lk,
                                               newLiveUntilLedgerSeq))])

\* ExtendFootprintTTLOpFrame::doApply; feeOk is the answer of
\* consumeRefundableSorobanResources
Extend_doApply(op, l, feeOk) ==
    LET st == Extend_loop(op, 1, [ltx |-> l, mLedgerReadByte |-> 0,
                                  code |-> ""])
    IN  IF st.code # "" THEN Outcome(FALSE, st.code, st.ltx)
        ELSE IF ~feeOk
        THEN Outcome(FALSE, "EXTEND_FOOTPRINT_TTL_INSUFFICIENT_REFUNDABLE_FEE",
                     st.ltx)
        ELSE Outcome(TRUE, "EXTEND_FOOTPRINT_TTL_SUCCESS", st.ltx)

(* --------------------------- RestoreFootprint -------------------------- *)

RestoreFootprintOp(resources) ==
    [type |-> "RESTORE_FOOTPRINT", extendTo |-> 0, resources |-> resources]

\* RestoreFootprintOpFrame::doCheckValid
Restore_doCheckValid(op, config) ==
    /\ op.resources.footprint.readOnly = <<>>
    /\ \A i \in DOMAIN op.resources.footprint.readWrite :
           isPersistentEntry(op.resources.footprint.readWrite[i])

\* the loop of RestoreFootprintOpFrame::doApply from key i on: st holds the
\* ledger transaction, the read and written bytes and the code of a failure
RECURSIVE Restore_loop_everyEntry(_, _, _)
Restore_loop_everyEntry(op, i, st) ==
    IF i > Len(op.resources.footprint.readWrite) \/ st.code # "" THEN st
    ELSE
    LET lk == op.resources.footprint.readWrite[i]
        ledgerSeq == st.ltx.header.ledgerSeq
        restoredLiveUntilLedger ==
            Uint32(ledgerSeq
                     + sorobanConfig.stateArchivalSettings.minPersistentTTL
                     - 1 + UINT32_SPAN)
        ttl == load(st.ltx, getTTLKey(lk))
    IN  IF ttl = nullopt
        THEN Restore_loop_everyEntry(op, i + 1, st)
        ELSE IF load(st.ltx, lk) = nullopt
        THEN [st EXCEPT !.code = Thrown]
        ELSE
        LET entrySize == load(st.ltx, lk)[1].size
            readByte == Uint32(st.mLedgerReadByte + entrySize)
            writeByte == Uint32(st.mLedgerWriteByte + entrySize)
            fail == "RESTORE_FOOTPRINT_RESOURCE_LIMIT_EXCEEDED"
        IN  IF op.resources.readBytes < readByte
            THEN [st EXCEPT !.mLedgerReadByte = readByte, !.code = fail]
            ELSE IF ~validateContractLedgerEntry(lk, entrySize, sorobanConfig)
            THEN [st EXCEPT !.mLedgerReadByte = readByte,
                            !.mLedgerWriteByte = writeByte, !.code = fail]
            ELSE IF op.resources.writeBytes < writeByte
            THEN [st EXCEPT !.mLedgerReadByte = readByte,
                            !.mLedgerWriteByte = writeByte, !.code = fail]
            ELSE Restore_loop_everyEntry(op, i + 1,
                     [st EXCEPT !.mLedgerReadByte = readByte,
                         !.mLedgerWriteByte = writeByte,
                         !.ltx = stored(@, TTLEntry(lk,
                                               restoredLiveUntilLedger))])

RECURSIVE Restore_loop(_, _, _)
Restore_loop(op, i, st) ==
    IF i > Len(op.resources.footprint.readWrite) \/ st.code # "" THEN st
    ELSE
    LET lk == op.resources.footprint.readWrite[i]
        ledgerSeq == st.ltx.header.ledgerSeq
        restoredLiveUntilLedger ==
            Uint32(ledgerSeq
                     + sorobanConfig.stateArchivalSettings.minPersistentTTL
                     - 1 + UINT32_SPAN)
        ttl == load(st.ltx, getTTLKey(lk))
    IN  IF ttl = nullopt \/ isLive(ttl[1], ledgerSeq)
        THEN Restore_loop(op, i + 1, st)
        ELSE IF load(st.ltx, lk) = nullopt
        THEN [st EXCEPT !.code = Thrown]
        ELSE
        LET entrySize == load(st.ltx, lk)[1].size
            readByte == Uint32(st.mLedgerReadByte + entrySize)
            writeByte == Uint32(st.mLedgerWriteByte + entrySize)
            fail == "RESTORE_FOOTPRINT_RESOURCE_LIMIT_EXCEEDED"
        IN  IF op.resources.readBytes < readByte
            THEN [st EXCEPT !.mLedgerReadByte = readByte, !.code = fail]
            ELSE IF ~validateContractLedgerEntry(lk, entrySize, sorobanConfig)
            THEN [st EXCEPT !.mLedgerReadByte = readByte,
                            !.mLedgerWriteByte = writeByte, !.code = fail]
            ELSE IF op.resources.writeBytes < writeByte
            THEN [st EXCEPT !.mLedgerReadByte = readByte,
                            !.mLedgerWriteByte = writeByte, !.code = fail]
            ELSE Restore_loop(op, i + 1,
                     [st EXCEPT !.mLedgerReadByte = readByte,
                         !.mLedgerWriteByte = writeByte,
                         !.ltx = stored(@, TTLEntry(lk,
                                               restoredLiveUntilLedger))])

\* RestoreFootprintOpFrame::doApply; feeOk is the answer of
\* consumeRefundableSorobanResources
Restore_doApply(op, l, feeOk) ==
    LET st == Restore_loop(op, 1, [ltx |-> l, mLedgerReadByte |-> 0,
                                   mLedgerWriteByte |-> 0, code |-> ""])
    IN  IF st.code # "" THEN Outcome(FALSE, st.code, st.ltx)
        ELSE IF ~feeOk
        THEN Outcome(FALSE, "RESTORE_FOOTPRINT_INSUFFICIENT_REFUNDABLE_FEE",
                     st.ltx)
        ELSE Outcome(TRUE, "RESTORE_FOOTPRINT_SUCCESS", st.ltx)

(* -------------------------- InvokeHostFunction ------------------------- *)

InvokeHostFunctionOp(resources) ==
    [type |-> "INVOKE_HOST_FUNCTION", extendTo |-> 0, resources |-> resources]

\* InvokeHostFunctionOutput of rust_bridge::invoke_host_function:
\* modified_ledger_entries are entries, contract_events and result_value
\* are sizes in bytes
InvokeHostFunctionOutput(success, internal, insns, mem, modified, events) ==
    [success |-> success, is_internal_error |-> internal,
     cpu_insns |-> insns, mem_bytes |-> mem,
     modified_ledger_entries |-> modified, contract_events |-> events,
     result_value |-> 0]

\* the lambda addReads of InvokeHostFunctionOpFrame::doApply from key i of
\* keys on: st holds the buffers for the host (ledgerEntryCxxBufs and
\* ttlEntryCxxBufs, pairwise), metrics.mLedgerReadByte and the code of a
\* failure
RECURSIVE addReads_archivedToo(_, _, _, _, _)
addReads_archivedToo(op, l, keys, i, st) ==
    IF i > Len(keys) \/ st.code # "" THEN st
    ELSE
    LET lk == keys[i]
        ttl == IF isSorobanEntry(lk) THEN load(l, getTTLKey(lk)) ELSE nullopt
        sorobanEntryLive == ttl # nullopt
        ttlEntry == IF sorobanEntryLive THEN ttl ELSE nullopt
        reads == ~isSorobanEntry(lk) \/ sorobanEntryLive
        ltxe == IF reads THEN load(l, lk) ELSE nullopt
        entrySize == IF ltxe # nullopt THEN ltxe[1].size ELSE 0
        readByte == Uint32(st.mLedgerReadByte + entrySize)
        bufs == IF ltxe # nullopt
                THEN Append(st.bufs, [entry |-> ltxe[1], ttl |-> ttlEntry])
                ELSE st.bufs
        fail == "INVOKE_HOST_FUNCTION_RESOURCE_LIMIT_EXCEEDED"
    IN  IF reads /\ ltxe = nullopt /\ isSorobanEntry(lk)
                 /\ ttlEntry # nullopt
        THEN [st EXCEPT !.code = Thrown]
        ELSE IF ~validateContractLedgerEntry(lk, entrySize, sorobanConfig)
        THEN [st EXCEPT !.bufs = bufs, !.mLedgerReadByte = readByte,
                        !.code = fail]
        ELSE IF op.resources.readBytes < readByte
        THEN [st EXCEPT !.bufs = bufs, !.mLedgerReadByte = readByte,
                        !.code = fail]
        ELSE addReads_archivedToo(op, l, keys, i + 1,
                 [st EXCEPT !.bufs = bufs, !.mLedgerReadByte = readByte])

RECURSIVE addReads(_, _, _, _, _)
addReads(op, l, keys, i, st) ==
    IF i > Len(keys) \/ st.code # "" THEN st
    ELSE
    LET lk == keys[i]
        ttl == IF isSorobanEntry(lk) THEN load(l, getTTLKey(lk)) ELSE nullopt
        expired == ttl # nullopt /\ ~isLive(ttl[1], l.header.ledgerSeq)
        sorobanEntryLive == ttl # nullopt /\ ~expired
        ttlEntry == IF sorobanEntryLive THEN ttl ELSE nullopt
        reads == ~isSorobanEntry(lk) \/ sorobanEntryLive
        ltxe == IF reads THEN load(l, lk) ELSE nullopt
        entrySize == IF ltxe # nullopt THEN ltxe[1].size ELSE 0
        readByte == Uint32(st.mLedgerReadByte + entrySize)
        bufs == IF ltxe # nullopt
                THEN Append(st.bufs, [entry |-> ltxe[1], ttl |-> ttlEntry])
                ELSE st.bufs
        fail == "INVOKE_HOST_FUNCTION_RESOURCE_LIMIT_EXCEEDED"
    IN  IF expired /\ ~isTemporaryEntry(lk)
        THEN [st EXCEPT !.code = "INVOKE_HOST_FUNCTION_ENTRY_ARCHIVED"]
        ELSE IF reads /\ ltxe = nullopt /\ isSorobanEntry(lk)
                      /\ ttlEntry # nullopt
        THEN [st EXCEPT !.code = Thrown]
        ELSE IF ~validateContractLedgerEntry(lk, entrySize, sorobanConfig)
        THEN [st EXCEPT !.bufs = bufs, !.mLedgerReadByte = readByte,
                        !.code = fail]
        ELSE IF op.resources.readBytes < readByte
        THEN [st EXCEPT !.bufs = bufs, !.mLedgerReadByte = readByte,
                        !.code = fail]
        ELSE addReads(op, l, keys, i + 1,
                 [st EXCEPT !.bufs = bufs, !.mLedgerReadByte = readByte])

\* the loop of doApply that creates or updates entry i of the entries the
\* host returned, and the ones after it
RECURSIVE writeModified(_, _, _, _)
writeModified(op, modified, i, st) ==
    IF i > Len(modified) \/ st.code # "" THEN st
    ELSE
    LET le == modified[i]
        lk == LedgerEntryKey(le)
        writeByte == IF lk.type # "TTL"
                     THEN Uint32(st.mLedgerWriteByte + le.size)
                     ELSE st.mLedgerWriteByte
        fail == "INVOKE_HOST_FUNCTION_RESOURCE_LIMIT_EXCEEDED"
    IN  IF ~validateContractLedgerEntry(lk, le.size, sorobanConfig)
        THEN [st EXCEPT !.code = fail]
        ELSE IF op.resources.writeBytes < writeByte
        THEN [st EXCEPT !.createdAndModifiedKeys = @ \cup {lk},
                        !.mLedgerWriteByte = writeByte, !.code = fail]
        ELSE writeModified(op, modified, i + 1,
                 [st EXCEPT !.createdAndModifiedKeys = @ \cup {lk},
                     !.mLedgerWriteByte = writeByte,
                     !.createdKeys = IF load(st.ltx, lk) = nullopt
                                     THEN @ \cup {lk} ELSE @,
                     !.ltx = stored(@, le)])

\* every created contract entry comes with its TTL entry, and nothing but
\* contract entries and TTL entries is created
createdWithTTL(createdKeys) ==
    \A key \in createdKeys :
        IF isSorobanEntry(key) THEN getTTLKey(key) \in createdKeys
                               ELSE key.type = "TTL"

\* the loop of doApply that erases key i of the read-write footprint, and
\* the ones after it, when the host did not return them
RECURSIVE eraseNotReturned_keepsTTL(_, _, _)
eraseNotReturned_keepsTTL(op, i, st) ==
    IF i > Len(op.resources.footprint.readWrite) \/ st.code # "" THEN st
    ELSE
    LET lk == op.resources.footprint.readWrite[i]
    IN  IF lk \in st.createdAndModifiedKeys \/ load(st.ltx, lk) = nullopt
        THEN eraseNotReturned_keepsTTL(op, i + 1, st)
        ELSE IF ~isSorobanEntry(lk)
        THEN [st EXCEPT !.code = Thrown]
        ELSE IF load(st.ltx, getTTLKey(lk)) = nullopt
        THEN [st EXCEPT !.ltx = erase(@, lk), !.code = Thrown]
        ELSE eraseNotReturned_keepsTTL(op, i + 1,
                 [st EXCEPT !.ltx = erase(@, lk)])

RECURSIVE eraseNotReturned(_, _, _)
eraseNotReturned(op, i, st) ==
    IF i > Len(op.resources.footprint.readWrite) \/ st.code # "" THEN st
    ELSE
    LET lk == op.resources.footprint.readWrite[i]
    IN  IF lk \in st.createdAndModifiedKeys \/ load(st.ltx, lk) = nullopt
        THEN eraseNotReturned(op, i + 1, st)
        ELSE IF ~isSorobanEntry(lk)
        THEN [st EXCEPT !.code = Thrown]
        ELSE IF load(st.ltx, getTTLKey(lk)) = nullopt
        THEN [st EXCEPT !.ltx = erase(@, lk), !.code = Thrown]
        ELSE eraseNotReturned(op, i + 1,
                 [st EXCEPT !.ltx = erase(erase(@, lk), getTTLKey(lk))])

\* the events of the host and then its return value against the limit of
\* the network configuration: the bytes emitted, or -1 past the limit
RECURSIVE emitted(_, _, _)
emitted(events, i, mEmitEventByte) ==
    IF i > Len(events) THEN mEmitEventByte
    ELSE IF sorobanConfig.txMaxContractEventsSizeBytes
                < Uint32(mEmitEventByte + events[i])
    THEN 0 - 1
    ELSE emitted(events, i + 1, Uint32(mEmitEventByte + events[i]))

\* the outcome of InvokeHostFunctionOpFrame::doApply: the outcome of an
\* operation, whether the host was invoked and the buffers it was given
InvokeOutcome(ok, code, l, invoked, bufs) ==
    [ok |-> ok, code |-> code, ltx |-> l, invoked |-> invoked,
     bufs |-> bufs]

\* InvokeHostFunctionOpFrame::doApply; out is what the host returns for the
\* buffers and feeOk the answer of consumeRefundableSorobanResources
Invoke_doApply(op, l, out, feeOk) ==
    LET fail == "INVOKE_HOST_FUNCTION_RESOURCE_LIMIT_EXCEEDED"
        ro == addReads(op, l, op.resources.footprint.readOnly, 1,
                       [bufs |-> <<>>, mLedgerReadByte |-> 0, code |-> ""])
        rw == addReads(op, l, op.resources.footprint.readWrite, 1, ro)
    IN  IF rw.code # "" THEN InvokeOutcome(FALSE, rw.code, l, FALSE, rw.bufs)
        ELSE IF ~out.success
        THEN InvokeOutcome(FALSE,
                 IF out.is_internal_error THEN Thrown
                 ELSE IF op.resources.instructions < out.cpu_insns THEN fail
                 ELSE IF sorobanConfig.txMemoryLimit < out.mem_bytes THEN fail
                 ELSE "INVOKE_HOST_FUNCTION_TRAPPED",
                 l, TRUE, rw.bufs)
        ELSE
        LET wr == writeModified(op, out.modified_ledger_entries, 1,
                      [ltx |-> l, mLedgerWriteByte |-> 0,
                       createdAndModifiedKeys |-> {}, createdKeys |-> {},
                       code |-> ""])
        IN  IF wr.code # ""
            THEN InvokeOutcome(FALSE, wr.code, wr.ltx, TRUE, rw.bufs)
            ELSE IF ~createdWithTTL(wr.createdKeys)
            THEN InvokeOutcome(FALSE, Thrown, wr.ltx, TRUE, rw.bufs)
            ELSE
            LET er == eraseNotReturned(op, 1, wr)
                events == emitted(out.contract_events
                                      \o <<out.result_value>>, 1, 0)
            IN  IF er.code # ""
                THEN InvokeOutcome(FALSE, er.code, er.ltx, TRUE, rw.bufs)
                ELSE IF events < 0
                THEN InvokeOutcome(FALSE, fail, er.ltx, TRUE, rw.bufs)
                ELSE IF ~feeOk
                THEN InvokeOutcome(FALSE,
                         "INVOKE_HOST_FUNCTION_INSUFFICIENT_REFUNDABLE_FEE",
                         er.ltx, TRUE, rw.bufs)
                ELSE InvokeOutcome(TRUE, "INVOKE_HOST_FUNCTION_SUCCESS",
                                   er.ltx, TRUE, rw.bufs)

(* ------------------ transactions applying the operations --------------- *)

\* the footprints of the operations: up to MaxFootprint different keys
Footprints ==
    {q \in UNION {[1..n -> FootprintKeys] : n \in 0..MaxFootprint} :
        \A i, j \in DOMAIN q : i # j => q[i] # q[j]}

\* the read-only and read-write footprints of one operation: no key twice,
\* up to MaxFootprint keys together
FootprintPairs ==
    {pair \in Footprints \X Footprints :
        /\ Len(pair[1]) + Len(pair[2]) <= MaxFootprint
        /\ Range(pair[1]) \cap Range(pair[2]) = {}}

ReadBytes == {0, 1, 3}

WriteBytes == {1, 3}

\* extendTo: nothing, within the limit, the limit, past the limit, and
\* enough to carry ledgerSeq + extendTo past the width of uint32_t
ExtendTos == {0, 1, 3, 4}

\* the ledgers the operations start from, by the ledgers the entry of each
\* key has left to live: archived or expired one ledger ago (-1), in its
\* last ledger (0), live for longer, or absent (nothing); an account lives
\* without TTL entry
GenesisLives ==
    {[lk \in FootprintKeys |->
         CASE lk = PersistentData -> pair[1]
           [] lk = Code -> pair[2]
           [] lk = TemporaryData -> pair[3]
           [] OTHER -> pair[4]] :
         pair \in {<<(<<0 - 1>>), <<1>>, <<0 - 1>>, <<0>> >>,
                   <<(<<0>>), <<0 - 1>>, <<1>>, nullopt>>,
                   <<nullopt, <<2>>, nullopt, <<0>> >>}}

\* the size of the entry of each key in these ledgers
GenesisSize(lk) == IF lk = Code THEN 2 ELSE 1

Genesis(ledgerSeq, lives) ==
    [header |-> [ledgerSeq |-> ledgerSeq],
     entries |->
        [lk \in LedgerKeys |->
            IF lk.type = "TTL"
            THEN LET of == CHOOSE k \in FootprintKeys : getTTLKey(k) = lk
                 IN  IF isSorobanEntry(of) /\ lives[of] # nullopt
                     THEN <<TTLEntry(of, ledgerSeq + lives[of][1])>>
                     ELSE nullopt
            ELSE IF lives[lk] # nullopt
                 THEN <<LedgerEntry(lk, GenesisSize(lk), 0)>>
                 ELSE nullopt]]

\* the record of an operation applied: how many were, the ledgers closed,
\* the operation, its outcome, the ledger before it, and for
\* InvokeHostFunction whether the host ran, on what, and the keys it returned
Applied(n, closed, op, r, pre, returned) ==
    [n |-> n, closed |-> closed, op |-> op, ok |-> r.ok, code |-> r.code,
     pre |-> pre, post |-> r.ltx, invoked |-> r.invoked, bufs |-> r.bufs,
     returned |-> returned]

LedgerInit ==
    /\ peer = [p \in Peers |-> NewPeer(RoleOf(p), IF p = "A" THEN 1 ELSE 2)]
    /\ chan = [p \in Peers |-> <<>>]
    /\ cfg = [p \in Peers |-> NodeCfg(IF p = "A" THEN 1 ELSE 2)]
    /\ down = [p \in Peers |-> FALSE]
    /\ nAsync = 0
    /\ now = [p \in Peers |-> 0]
    /\ ev = [peer |-> "A", op |-> "init", am |-> NoFrame, env |-> EnvDefault,
             down |-> FALSE, pre |-> Summary(NewPeer(RoleOf("A"), 1))]
    /\ \E ledgerSeq \in {2, UINT32_SPAN - 3}, lives \in GenesisLives :
          \E l \in {Genesis(ledgerSeq, lives)} :
              /\ ltx = l
              /\ applied = Applied(0, 0, [type |-> "none", extendTo |-> 0,
                                          resources |-> Resources(<<>>, <<>>,
                                                                  0, 0)],
                                   InvokeOutcome(FALSE, "", l, FALSE, <<>>),
                                   l, {})

\* a transaction applies op with outcome r: the changes of an operation
\* that fails are rolled back with its transaction
Applies(op, r, returned) ==
    /\ applied' = Applied(applied.n + 1, applied.closed, op, r, ltx, returned)
    /\ ltx' = IF r.ok THEN r.ltx ELSE ltx
    /\ UNCHANGED <<peer, chan, cfg, down, nAsync, now, ev>>

\* OperationFrame::checkValid and then OperationFrame::apply of an
\* ExtendFootprintTTL operation
ApplyExtend ==
    /\ applied.n < MaxApplied
    /\ \E pair \in FootprintPairs, extendTo \in ExtendTos,
          readBytes \in ReadBytes, feeOk \in BOOLEAN :
           \E op \in {ExtendFootprintTTLOp(extendTo,
                          Resources(pair[1], pair[2], readBytes, 0))} :
               \E r \in {IF Extend_doCheckValid(op, sorobanConfig)
                         THEN Extend_doApply(op, ltx, feeOk)
                         ELSE Outcome(FALSE, "EXTEND_FOOTPRINT_TTL_MALFORMED",
                                      ltx)} :
                   Applies(op, InvokeOutcome(r.ok, r.code, r.ltx, FALSE, <<>>),
                           {})

\* OperationFrame::checkValid and then OperationFrame::apply of a
\* RestoreFootprint operation
ApplyRestore ==
    /\ applied.n < MaxApplied
    /\ \E pair \in FootprintPairs, readBytes \in ReadBytes,
          writeBytes \in WriteBytes, feeOk \in BOOLEAN :
           \E op \in {RestoreFootprintOp(
                          Resources(pair[1], pair[2], readBytes, writeBytes))} :
               \E r \in {IF Restore_doCheckValid(op, sorobanConfig)
                         THEN Restore_doApply(op, ltx, feeOk)
                         ELSE Outcome(FALSE, "RESTORE_FOOTPRINT_MALFORMED",
                                      ltx)} :
                   Applies(op, InvokeOutcome(r.ok, r.code, r.ltx, FALSE, <<>>),
                           {})

\* the entries the host returns for the keys of returns among the
\* read-write footprint rw: each entry with size bytes, a contract entry
\* followed by its TTL entry; or the TTL entries alone
modifiedFor(rw, returns, size, liveUntil, ttlOnly) ==
    Flatten([i \in DOMAIN rw |->
        IF rw[i] \notin returns THEN <<>>
        ELSE IF ~isSorobanEntry(rw[i]) THEN <<LedgerEntry(rw[i], size, 0)>>
        ELSE IF ttlOnly THEN <<TTLEntry(rw[i], liveUntil)>>
        ELSE <<LedgerEntry(rw[i], size, 0), TTLEntry(rw[i], liveUntil)>>])

\* what the host may return for op at ledger l: it trapped, ran out of
\* instructions or memory, failed internally, or succeeded with some
\* entries of the read-write footprint written and the others deleted, or
\* with nothing but new TTL entries for the live entries it was given
HostOutputs(op, l) ==
    LET rw == op.resources.footprint.readWrite
        liveUntil ==
            Uint32(l.header.ledgerSeq
                     + sorobanConfig.stateArchivalSettings.minPersistentTTL
                     - 1 + UINT32_SPAN)
    IN  {InvokeHostFunctionOutput(TRUE, FALSE, 0, 0,
             modifiedFor(rw, returns, 1, liveUntil, FALSE), <<>>) :
                 returns \in SUBSET Range(rw)}
        \cup {InvokeHostFunctionOutput(TRUE, FALSE, 0, 0,
                  modifiedFor(rw, Range(rw), 3, liveUntil, FALSE), <<>>),
              InvokeHostFunctionOutput(TRUE, FALSE, 0, 0,
                  modifiedFor(rw, {lk \in Range(rw) :
                                      /\ isSorobanEntry(lk)
                                      /\ load(l, getTTLKey(lk)) # nullopt
                                      /\ isLive(load(l, getTTLKey(lk))[1],
                                                l.header.ledgerSeq)},
                              1, liveUntil, TRUE), <<>>),
              InvokeHostFunctionOutput(TRUE, FALSE, 0, 0, <<>>, <<2>>),
              InvokeHostFunctionOutput(FALSE, TRUE, 0, 0, <<>>, <<>>),
              InvokeHostFunctionOutput(FALSE, FALSE, 2, 0, <<>>, <<>>),
              InvokeHostFunctionOutput(FALSE, FALSE, 0, 2, <<>>, <<>>),
              InvokeHostFunctionOutput(FALSE, FALSE, 0, 0, <<>>, <<>>)}

\* OperationFrame::apply of an InvokeHostFunction operation
ApplyInvoke ==
    /\ applied.n < MaxApplied
    /\ \E pair \in FootprintPairs, readBytes \in ReadBytes,
          writeBytes \in WriteBytes, feeOk \in BOOLEAN :
           \E op \in {InvokeHostFunctionOp(
                          Resources(pair[1], pair[2], readBytes, writeBytes))} :
               \E out \in HostOutputs(op, ltx) :
                   \E r \in {Invoke_doApply(op, ltx, out, feeOk)} :
                       Applies(op, r,
                               {LedgerEntryKey(out.modified_ledger_entries[i]) :
                                   i \in DOMAIN out.modified_ledger_entries})

\* the ledger closes and the next one opens
CloseLedger ==
    /\ applied.closed < MaxClosed
    /\ ltx.header.ledgerSeq + 1 < UINT32_SPAN
    /\ ltx' = [ltx EXCEPT !.header.ledgerSeq = @ + 1]
    /\ applied' = [applied EXCEPT !.closed = @ + 1]
    /\ UNCHANGED <<peer, chan, cfg, down, nAsync, now, ev>>

SorobanNext ==
    \/ ApplyExtend
    \/ ApplyRestore
    \/ ApplyInvoke
    \/ CloseLedger

SpecSoroban == LedgerInit /\ [][SorobanNext]_vars

(* ----------------- C38: ExtendFootprintTTL never lowers ---------------- *)

\* the TTL entry of key lk in ledger l, or nothing
TTLOf(l, lk) == load(l, getTTLKey(lk))

\* ExtendFootprintTTLOpFrame::doApply has just run
ExtendApplied ==
    /\ applied.op.type = "EXTEND_FOOTPRINT_TTL"
    /\ applied.code # "EXTEND_FOOTPRINT_TTL_MALFORMED"

\* doApply has run through its loop over the footprint
ExtendLoopDone ==
    applied.code \in {"EXTEND_FOOTPRINT_TTL_SUCCESS",
                      "EXTEND_FOOTPRINT_TTL_INSUFFICIENT_REFUNDABLE_FEE"}

\* ledgerSeq + extendTo of the operation applied, as uint32_t
NewLiveUntil == Uint32(applied.pre.header.ledgerSeq + applied.op.extendTo)

\* the keys of the read-only footprint whose entry the operation extends:
\* the TTL entry exists, is live and ends before ledgerSeq + extendTo
Extended ==
    {lk \in Range(applied.op.resources.footprint.readOnly) :
        /\ TTLOf(applied.pre, lk) # nullopt
        /\ isLive(TTLOf(applied.pre, lk)[1], applied.pre.header.ledgerSeq)
        /\ TTLOf(applied.pre, lk)[1].liveUntilLedgerSeq < NewLiveUntil}

RECURSIVE SizeOf(_, _)
\* the bytes of the entries of keys in ledger l
SizeOf(l, keys) ==
    IF keys = {} THEN 0
    ELSE LET lk == CHOOSE k \in keys : TRUE
         IN  load(l, lk)[1].size + SizeOf(l, keys \ {lk})

\* C38: ExtendFootprintTTLOpFrame::doApply lowers no TTL and changes nothing
\* but TTL entries; when its loop is through, the TTL entry of each key of
\* the read-only footprint that exists, is live and ends before ledgerSeq +
\* extendTo (uint32_t) ends at ledgerSeq + extendTo, and every other entry
\* is as before; when the entries to extend are larger together than
\* resources.readBytes the operation fails with
\* EXTEND_FOOTPRINT_TTL_RESOURCE_LIMIT_EXCEEDED.
C38_ExtendNeverLowers ==
    ExtendApplied =>
        /\ \A lk \in LedgerKeys :
              IF lk.type = "TTL" /\ load(applied.pre, lk) # nullopt
              THEN /\ load(applied.post, lk) # nullopt
                   /\ load(applied.post, lk)[1].liveUntilLedgerSeq
                          >= load(applied.pre, lk)[1].liveUntilLedgerSeq
              ELSE load(applied.post, lk) = load(applied.pre, lk)
        /\ ExtendLoopDone =>
              \A lk \in FootprintKeys :
                  TTLOf(applied.post, lk) =
                      IF lk \in Extended
                      THEN <<TTLEntry(lk, NewLiveUntil)>>
                      ELSE TTLOf(applied.pre, lk)
        /\ SizeOf(applied.pre, Extended) > applied.op.resources.readBytes =>
              /\ ~applied.ok
              /\ applied.code = "EXTEND_FOOTPRINT_TTL_RESOURCE_LIMIT_EXCEEDED"

\* an operation whose footprint names a live entry and an archived one has
\* succeeded: the live entry ends later than before, the archived one is
\* as it was
C38_Witness ==
    /\ ExtendApplied
    /\ applied.ok
    /\ applied.op.resources.footprint.readOnly = <<Code, PersistentData>>
    /\ Extended = {Code}
    /\ TTLOf(ltx, Code)[1].liveUntilLedgerSeq
           > TTLOf(applied.pre, Code)[1].liveUntilLedgerSeq
    /\ TTLOf(applied.pre, PersistentData) # nullopt
    /\ ~isLive(TTLOf(applied.pre, PersistentData)[1],
               applied.pre.header.ledgerSeq)
    /\ TTLOf(ltx, PersistentData) = TTLOf(applied.pre, PersistentData)

\* ledgerSeq + extendTo has wrapped and the operation has left a live entry
\* of its footprint as it was
ExtendWrapped ==
    /\ ExtendApplied
    /\ applied.ok
    /\ applied.pre.header.ledgerSeq + applied.op.extendTo >= UINT32_SPAN
    /\ \E lk \in Range(applied.op.resources.footprint.readOnly) :
          /\ TTLOf(applied.pre, lk) # nullopt
          /\ isLive(TTLOf(applied.pre, lk)[1], applied.pre.header.ledgerSeq)
          /\ TTLOf(ltx, lk) = TTLOf(applied.pre, lk)

\* the entries to extend were larger together than resources.readBytes
ExtendOverRead ==
    /\ ExtendApplied
    /\ SizeOf(applied.pre, Extended) > applied.op.resources.readBytes
    /\ Cardinality(Extended) = 2

(* -------------- C39: RestoreFootprint restores the archived ------------ *)

\* a RestoreFootprint operation has just been checked and, when valid,
\* applied
RestoreChecked == applied.op.type = "RESTORE_FOOTPRINT"

\* RestoreFootprintOpFrame::doApply has just run
RestoreApplied ==
    RestoreChecked /\ applied.code # "RESTORE_FOOTPRINT_MALFORMED"

\* doApply has run through its loop over the footprint
RestoreLoopDone ==
    applied.code \in {"RESTORE_FOOTPRINT_SUCCESS",
                      "RESTORE_FOOTPRINT_INSUFFICIENT_REFUNDABLE_FEE"}

\* ledgerSeq + minPersistentTTL - 1 of the operation applied
RestoredLiveUntil ==
    Uint32(applied.pre.header.ledgerSeq
             + sorobanConfig.stateArchivalSettings.minPersistentTTL - 1
             + UINT32_SPAN)

\* the keys of the read-write footprint whose entry is archived: its TTL
\* entry exists and is not live
Archived ==
    {lk \in Range(applied.op.resources.footprint.readWrite) :
        /\ TTLOf(applied.pre, lk) # nullopt
        /\ ~isLive(TTLOf(applied.pre, lk)[1], applied.pre.header.ledgerSeq)}

\* C39: a RestoreFootprint operation is RESTORE_FOOTPRINT_MALFORMED exactly
\* when its read-only footprint is not empty or a key of its read-write
\* footprint is not a persistent entry; doApply changes nothing but the TTL
\* entries of archived entries of the read-write footprint, which it sets
\* to ledgerSeq + minPersistentTTL - 1; when its loop is through, every
\* archived entry of the footprint has that TTL; and when the archived
\* entries are larger together than resources.readBytes or
\* resources.writeBytes it fails with
\* RESTORE_FOOTPRINT_RESOURCE_LIMIT_EXCEEDED.
C39_RestoreOnlyArchived ==
    RestoreChecked =>
        /\ applied.code = "RESTORE_FOOTPRINT_MALFORMED" <=>
              \/ applied.op.resources.footprint.readOnly # <<>>
              \/ \E lk \in Range(applied.op.resources.footprint.readWrite) :
                    ~isPersistentEntry(lk)
        /\ RestoreApplied =>
              /\ \A lk \in LedgerKeys :
                    load(applied.post, lk) # load(applied.pre, lk) =>
                        \E of \in Archived :
                            /\ lk = getTTLKey(of)
                            /\ load(applied.post, lk) =
                                   <<TTLEntry(of, RestoredLiveUntil)>>
              /\ RestoreLoopDone =>
                    \A lk \in Archived :
                        TTLOf(applied.post, lk) =
                            <<TTLEntry(lk, RestoredLiveUntil)>>
              /\ \/ SizeOf(applied.pre, Archived)
                        > applied.op.resources.readBytes
                 \/ SizeOf(applied.pre, Archived)
                        > applied.op.resources.writeBytes
                 => /\ ~applied.ok
                    /\ applied.code =
                           "RESTORE_FOOTPRINT_RESOURCE_LIMIT_EXCEEDED"

\* an operation whose footprint names an archived entry and a live one has
\* succeeded: the archived entry is live again until ledgerSeq +
\* minPersistentTTL - 1, the live one is as it was
C39_Witness ==
    /\ RestoreApplied
    /\ applied.ok
    /\ Cardinality(Range(applied.op.resources.footprint.readWrite)) = 2
    /\ \E lk \in Range(applied.op.resources.footprint.readWrite) :
          /\ lk \in Archived
          /\ TTLOf(ltx, lk) = <<TTLEntry(lk, RestoredLiveUntil)>>
          /\ isLive(TTLOf(ltx, lk)[1], ltx.header.ledgerSeq)
    /\ \E lk \in Range(applied.op.resources.footprint.readWrite) :
          /\ lk \notin Archived
          /\ TTLOf(applied.pre, lk) # nullopt
          /\ TTLOf(ltx, lk) = TTLOf(applied.pre, lk)

\* the archived entries were larger together than resources.writeBytes and
\* no larger than resources.readBytes
RestoreOverWrite ==
    /\ RestoreApplied
    /\ SizeOf(applied.pre, Archived) > applied.op.resources.writeBytes
    /\ SizeOf(applied.pre, Archived) <= applied.op.resources.readBytes

(* ------------ C40: InvokeHostFunction and archived entries ------------- *)

\* InvokeHostFunctionOpFrame::doApply has just run
InvokeApplied == applied.op.type = "INVOKE_HOST_FUNCTION"

\* the keys of the footprint in the order doApply reads them
FootprintOrder ==
    applied.op.resources.footprint.readOnly
        \o applied.op.resources.footprint.readWrite

\* key lk is a Soroban entry whose TTL entry exists and is not live
Expired(lk) ==
    /\ isSorobanEntry(lk)
    /\ TTLOf(applied.pre, lk) # nullopt
    /\ ~isLive(TTLOf(applied.pre, lk)[1], applied.pre.header.ledgerSeq)

\* the places of the footprint that name an archived entry: a persistent
\* Soroban entry whose TTL entry exists and is not live
ArchivedAt ==
    {i \in DOMAIN FootprintOrder :
        Expired(FootprintOrder[i]) /\ ~isTemporaryEntry(FootprintOrder[i])}

\* the bytes doApply has read when it is through the first n keys of the
\* footprint, none of them archived: the entries of the keys that are not
\* Soroban entries and of the live Soroban entries
ReadThrough(n) ==
    SizeOf(applied.pre,
           {lk \in {FootprintOrder[i] : i \in 1..n} :
               /\ load(applied.pre, lk) # nullopt
               /\ isSorobanEntry(lk) =>
                      TTLOf(applied.pre, lk) # nullopt /\ ~Expired(lk)})

\* the host got no entry that is archived or expired: every Soroban entry
\* in the buffers came with its TTL entry, which is live
OnlyLiveGiven ==
    \A i \in DOMAIN applied.bufs :
        isSorobanEntry(applied.bufs[i].entry.key) =>
            /\ applied.bufs[i].ttl # nullopt
            /\ isLive(applied.bufs[i].ttl[1], applied.pre.header.ledgerSeq)

\* after a successful invocation no key of the read-write footprint that
\* the host did not return has an entry or a TTL entry
NotReturnedErased ==
    applied.ok =>
        \A lk \in Range(applied.op.resources.footprint.readWrite) :
            lk \notin applied.returned =>
                /\ load(applied.post, lk) = nullopt
                /\ TTLOf(applied.post, lk) = nullopt

\* C40 as stated: an operation whose footprint names an archived entry
\* fails with INVOKE_HOST_FUNCTION_ENTRY_ARCHIVED before the host is
\* invoked, the host gets no expired entry, and after a success the keys the
\* host did not return are gone.
C40_Original ==
    InvokeApplied =>
        /\ ArchivedAt # {} =>
              /\ ~applied.invoked
              /\ applied.code = "INVOKE_HOST_FUNCTION_ENTRY_ARCHIVED"
        /\ OnlyLiveGiven
        /\ NotReturnedErased

\* C40: an operation whose footprint names an archived entry fails before
\* the host is invoked: with INVOKE_HOST_FUNCTION_ENTRY_ARCHIVED when the
\* entries read before the first archived key fit resources.readBytes, and
\* with INVOKE_HOST_FUNCTION_RESOURCE_LIMIT_EXCEEDED when they do not; the
\* buffers for the host hold no archived and no expired entry; and after a
\* success no read-write key the host did not return has an entry or a TTL
\* entry.
C40_ArchivedNeverGiven ==
    InvokeApplied =>
        /\ ArchivedAt # {} =>
              LET first == CHOOSE i \in ArchivedAt :
                               \A j \in ArchivedAt : i <= j
              IN  /\ ~applied.invoked
                  /\ ~applied.ok
                  /\ applied.post = applied.pre
                  /\ applied.code =
                         IF ReadThrough(first - 1)
                                <= applied.op.resources.readBytes
                         THEN "INVOKE_HOST_FUNCTION_ENTRY_ARCHIVED"
                         ELSE "INVOKE_HOST_FUNCTION_RESOURCE_LIMIT_EXCEEDED"
        /\ OnlyLiveGiven
        /\ NotReturnedErased

\* an operation whose read-only footprint names a live entry larger than
\* resources.readBytes before an archived entry has failed with the resource
\* limit, the host not invoked
C40_Witness ==
    /\ InvokeApplied
    /\ applied.op.resources.footprint.readOnly = <<Code, PersistentData>>
    /\ ArchivedAt = {2}
    /\ applied.op.resources.readBytes = 1
    /\ ~applied.invoked
    /\ applied.code = "INVOKE_HOST_FUNCTION_RESOURCE_LIMIT_EXCEEDED"

\* an archived entry stopped the operation
InvokeArchived ==
    /\ InvokeApplied
    /\ ArchivedAt # {}
    /\ applied.code = "INVOKE_HOST_FUNCTION_ENTRY_ARCHIVED"

\* the footprint named an expired temporary entry, which the host did not
\* get, and the host ran
InvokeExpiredTemporary ==
    /\ InvokeApplied
    /\ TemporaryData \in Range(FootprintOrder)
    /\ Expired(TemporaryData)
    /\ applied.invoked
    /\ \A i \in DOMAIN applied.bufs :
          applied.bufs[i].entry.key # TemporaryData

\* after a success a live entry of the read-write footprint that the host
\* did not return is gone with its TTL entry
InvokeErased ==
    /\ InvokeApplied
    /\ applied.ok
    /\ \E lk \in Range(applied.op.resources.footprint.readWrite) :
          /\ lk \notin applied.returned
          /\ load(applied.pre, lk) # nullopt
          /\ TTLOf(applied.pre, lk) # nullopt
          /\ load(ltx, lk) = nullopt
          /\ TTLOf(ltx, lk) = nullopt

====
